---------------------------- MODULE Spec2Model ----------------------------
(***************************************************************************)
(* A model of the deterministic ad-composition engine                      *)
(* (src/src/composition): the layout registry, the product placer's        *)
(* geometry, the contrast colour, and the Compositor.compose pipeline.     *)
(*                                                                         *)
(* Conventions                                                             *)
(*  - A Python str is a sequence of one-character strings, so that `in`,   *)
(*    lower(), lstrip(), slicing and difflib can be computed as the code   *)
(*    computes them.                                                       *)
(*  - A Python float that the code writes as a decimal literal k/100 is    *)
(*    the integer k (hundredths).  int(d * (t / m)) is TruncMulDiv(d,t,m): *)
(*    the exact floor, minus one on the operands where the binary64        *)
(*    product falls just short of the exact integer (RoundsShort).         *)
(*  - An image is its size <<width, height>>; a canvas additionally keeps  *)
(*    the list of things drawn on it.                                      *)
(***************************************************************************)
EXTENDS Integers, Sequences, FiniteSets, TLC

VARIABLES
    call,       \* pure-function harness: the function applied and its inputs
    ret,        \* pure-function harness: [done |-> FALSE] or the result
    input,      \* compose: the CompositionInput of the call
    world,      \* compose: what the file system / network hold for the call's sources
    pc,         \* compose: position of the call inside Compositor.compose
    layout,     \* compose: the resolved LayoutSpec (or NoLayout)
    canvas,     \* compose: the call-local canvas (or NoCanvas)
    stages,     \* compose: the stages that have begun, in order
    completed,  \* compose: the stages that have completed, with the canvas size after each
    queue,      \* compose: the _place_logo calls of _render_logos still to make
    inflight,   \* compose: the network fetches issued and not yet completed
    outfile,    \* compose: the file at output_path (or NoFile)
    result,     \* compose: the returned ImageAsset, the raised error, or NoResult
    tasks,      \* concurrent calls: the state of each compose call, canvas by reference
    heap,       \* concurrent calls: the Image objects of the process, by identity
    disk,       \* concurrent calls: the files written, by path
    gstate,     \* graph: the GraphState as merged by the reducers
    branches,   \* graph: the process_icp branches sent by route_to_icps
    checkpoints, \* checkpoints: the thread_id column of the checkpoints table
    ckpt        \* checkpoints: the last checkpoint operation and what it returned

vars == <<call, ret, input, world, pc, layout, canvas, stages, completed, queue,
          inflight, outfile, result, tasks, heap, disk, gstate, branches,
          checkpoints, ckpt>>

parVars == <<tasks, heap, disk>>

graphVars == <<gstate, branches>>

ckptVars == <<checkpoints, ckpt>>

composeVars == <<input, world, pc, layout, canvas, stages, completed, queue,
                 inflight, outfile, result>>

-----------------------------------------------------------------------------
(* Bounds of the model *)

\* canvas sides 1..MaxSide are explored besides the real channel sizes
MaxSide == 4
\* product images of every size 1..MaxImg x 1..MaxImg are explored
MaxImg == 23
\* hex colour strings of every length 0..MaxHexLen over HexAlphabet are explored
MaxHexLen == 7

-----------------------------------------------------------------------------
(* Small helpers *)

Min2(a, b) == IF a <= b THEN a ELSE b
Max2(a, b) == IF a >= b THEN a ELSE b
SetMax(S) == CHOOSE x \in S : \A y \in S : y <= x
SetMin(S) == CHOOSE x \in S : \A y \in S : x <= y
Abs(x) == IF x < 0 THEN -x ELSE x

RECURSIVE SeqsUpTo(_, _)
\* all sequences over alphabet A of length 0..n
SeqsUpTo(A, n) ==
    IF n = 0 THEN {<<>>}
    ELSE LET shorter == SeqsUpTo(A, n - 1)
         IN  shorter \cup {Append(s, c) : s \in shorter, c \in A}

-----------------------------------------------------------------------------
(* Python str operations on character sequences *)

UpperChars == <<"A","B","C","D","E","F","G","H","I","J","K","L","M",
                "N","O","P","Q","R","S","T","U","V","W","X","Y","Z">>
LowerChars == <<"a","b","c","d","e","f","g","h","i","j","k","l","m",
                "n","o","p","q","r","s","t","u","v","w","x","y","z">>

\* str.lower(), one character
LowerChar(c) ==
    IF \E i \in 1..26 : UpperChars[i] = c
    THEN LowerChars[CHOOSE i \in 1..26 : UpperChars[i] = c]
    ELSE c

\* str.lower()
Lower(s) == [i \in 1..Len(s) |-> LowerChar(s[i])]

\* str.replace(old, new) for one-character old and new
ReplaceChar(s, old, new) == [i \in 1..Len(s) |-> IF s[i] = old THEN new ELSE s[i]]

\* `sub in s`
Contains(s, sub) ==
    \E i \in 0..(Len(s) - Len(sub)) :
        \A k \in 1..Len(sub) : s[i + k] = sub[k]

\* s.startswith(prefix)
StartsWith(s, prefix) ==
    /\ Len(prefix) <= Len(s)
    /\ \A k \in 1..Len(prefix) : s[k] = prefix[k]

\* s[lo:hi] with Python's 0-based, clipped slice bounds
Slice(s, lo, hi) ==
    LET h == Min2(hi, Len(s))
    IN  IF lo >= h THEN <<>> ELSE [i \in 1..(h - lo) |-> s[lo + i]]

RECURSIVE LStrip(_, _)
\* s.lstrip(c) for a one-character c
LStrip(s, c) == IF Len(s) > 0 /\ s[1] = c THEN LStrip(Tail(s), c) ELSE s

-----------------------------------------------------------------------------
(* Python float arithmetic: int(d * (t / m)) *)

\* The d for which d * (k/100), computed in binary64, is below the exact
\* integer d*k/100 (so int() gives one less), for 1 <= d <= 1300.  For every
\* other fraction k/100 the source or the model uses there is no such d.
ShortHundredths(k) ==
    CASE k = 29  -> {100, 200, 400, 800}
      [] k = 35  -> {180, 340, 360, 660, 680, 700, 720, 1300}
      [] k = 70  -> {90, 170, 180, 330, 340, 350, 360, 650, 660, 670, 680,
                     690, 700, 710, 720, 730, 1290, 1300}
      [] k = 82  -> {150, 300, 600, 1200}
      [] k = 140 -> {45, 85, 90, 165, 170, 175, 180, 325, 330, 335, 340, 345,
                     350, 355, 360, 365, 645, 650, 655, 660, 665, 670, 675,
                     680, 685, 690, 695, 700, 705, 710, 715, 720, 725, 730,
                     1285, 1290, 1295, 1300}
      [] OTHER   -> {}

\* The <<d, t, m>> for which d * (t / m), computed in binary64, is below the
\* exact integer d*t/m: all of them with t < m <= 26, d <= m, and the one that
\* fitting a 3000 pixel wide logo into 98 pixels meets.
ShortScale == {<<22, 15, 22>>, <<23, 13, 23>>, <<26, 15, 26>>, <<3000, 98, 3000>>}

\* whether the binary64 product d * (t / m) falls short of the exact integer
RoundsShort(d, t, m) ==
    IF m = 100 THEN d \in ShortHundredths(t) ELSE <<d, t, m>> \in ShortScale

\* int(d * (t / m)) for integers d >= 0, t >= 0, m > 0
TruncMulDiv(d, t, m) ==
    ((d * t) \div m) - (IF RoundsShort(d, t, m) THEN 1 ELSE 0)

-----------------------------------------------------------------------------
(* templates/layout_specs.py: LayoutZone, LayoutSpec, the registry *)

\* a zone whose start and end are exchanged
LayoutZone_flipped(xs, xe, ys, ye) ==
    [x_start |-> xe, x_end |-> xs, y_start |-> ye, y_end |-> ys]

\* LayoutZone(x_start, x_end, y_start, y_end), fractions in hundredths
LayoutZone(xs, xe, ys, ye) == [x_start |-> xs, x_end |-> xe, y_start |-> ys, y_end |-> ye]

\* a get_bounds that rounds each edge to the nearest pixel instead of truncating
get_bounds_nearest(zone, width, height) ==
    << (width * zone.x_start + 50) \div 100,
       (height * zone.y_start + 50) \div 100,
       (width * zone.x_end + 50) \div 100,
       (height * zone.y_end + 50) \div 100 >>

\* LayoutZone.get_bounds(width, height) -> (x1, y1, x2, y2)
get_bounds(zone, width, height) ==
    << TruncMulDiv(width, zone.x_start, 100),
       TruncMulDiv(height, zone.y_start, 100),
       TruncMulDiv(width, zone.x_end, 100),
       TruncMulDiv(height, zone.y_end, 100) >>

HeroName == <<"H","e","r","o"," ","P","r","o","d","u","c","t"," ","w","i","t","h"," ","S","t","a","t"," ","O","v","e","r","l","a","y">>
SplitName == <<"P","r","o","b","l","e","m","/","S","o","l","u","t","i","o","n"," ","S","p","l","i","t">>
LifestyleName == <<"L","i","f","e","s","t","y","l","e"," ","C","o","n","t","e","x","t"," ","S","h","o","t">>
MinimalName == <<"M","i","n","i","m","a","l"," ","P","r","o","d","u","c","t"," ","F","o","c","u","s">>

\* the keys of LAYOUT_ARCHETYPES, in insertion order
ArchetypeNames == <<HeroName, SplitName, LifestyleName, MinimalName>>

\* LAYOUT_ARCHETYPES[key]; zones that a spec leaves out would be absent fields
LAYOUT_ARCHETYPES(key) ==
    CASE key = HeroName ->
            [name |-> HeroName,
             product_zone  |-> LayoutZone(15, 85, 10, 70),
             headline_zone |-> LayoutZone(5, 65, 68, 82),
             body_zone     |-> LayoutZone(5, 65, 82, 92),
             cta_zone      |-> LayoutZone(5, 40, 88, 98),
             logo_zone     |-> LayoutZone(75, 95, 3, 12)]
      [] key = SplitName ->
            [name |-> SplitName,
             product_zone  |-> LayoutZone(50, 95, 10, 85),
             headline_zone |-> LayoutZone(5, 48, 15, 35),
             body_zone     |-> LayoutZone(5, 48, 38, 65),
             cta_zone      |-> LayoutZone(5, 35, 70, 85),
             logo_zone     |-> LayoutZone(5, 25, 3, 12)]
      [] key = LifestyleName ->
            [name |-> LifestyleName,
             product_zone  |-> LayoutZone(55, 95, 50, 95),
             headline_zone |-> LayoutZone(5, 70, 8, 25),
             body_zone     |-> LayoutZone(5, 55, 28, 45),
             cta_zone      |-> LayoutZone(5, 35, 50, 62),
             logo_zone     |-> LayoutZone(75, 95, 3, 12)]
      [] key = MinimalName ->
            [name |-> MinimalName,
             product_zone  |-> LayoutZone(20, 80, 12, 62),
             headline_zone |-> LayoutZone(10, 90, 65, 78),
             body_zone     |-> LayoutZone(15, 85, 78, 88),
             cta_zone      |-> LayoutZone(30, 70, 88, 96),
             logo_zone     |-> LayoutZone(40, 60, 2, 10)]

DEFAULT_LAYOUT == MinimalName

IsArchetype(key) == \E i \in 1..Len(ArchetypeNames) : ArchetypeNames[i] = key

-----------------------------------------------------------------------------
(* difflib, as get_layout_spec uses it (no junk; sequences under 200 items) *)

\* character order of str comparison, for the characters of the registry keys
CharRank(c) ==
    CASE c = " " -> 0
      [] c = "/" -> 1
      [] \E i \in 1..26 : UpperChars[i] = c -> 1 + (CHOOSE i \in 1..26 : UpperChars[i] = c)
      [] \E i \in 1..26 : LowerChars[i] = c -> 27 + (CHOOSE i \in 1..26 : LowerChars[i] = c)
      [] OTHER -> 60

RECURSIVE StrLess(_, _)
\* a < b for str
StrLess(a, b) ==
    IF Len(a) = 0 THEN Len(b) > 0
    ELSE IF Len(b) = 0 THEN FALSE
    ELSE IF a[1] = b[1] THEN StrLess(Tail(a), Tail(b))
    ELSE CharRank(a[1]) < CharRank(b[1])

RECURSIVE MatchLen(_, _, _, _, _, _)
\* length of the common run a[i..], b[j..] inside a[..ahi], b[..bhi] (1-based, inclusive)
MatchLen(a, b, i, j, ahi, bhi) ==
    IF i > ahi \/ j > bhi THEN 0
    ELSE IF a[i] # b[j] THEN 0
    ELSE 1 + MatchLen(a, b, i + 1, j + 1, ahi, bhi)

\* SequenceMatcher.find_longest_match(alo, ahi, blo, bhi): the longest block,
\* of those the one starting earliest in a, of those the earliest in b
find_longest_match(a, b, alo, ahi, blo, bhi) ==
    LET cands == {p \in (alo..ahi) \X (blo..bhi) : a[p[1]] = b[p[2]]}
    IN  IF cands = {} THEN [i |-> alo, j |-> blo, size |-> 0]
        ELSE LET lenf == [p \in cands |-> MatchLen(a, b, p[1], p[2], ahi, bhi)]
                 K    == SetMax({lenf[p] : p \in cands})
                 top  == {p \in cands : lenf[p] = K}
                 i0   == SetMin({p[1] : p \in top})
                 j0   == SetMin({p[2] : p \in {q \in top : q[1] = i0}})
             IN  [i |-> i0, j |-> j0, size |-> K]

RECURSIVE MatchTotal(_, _, _, _, _, _)
\* sum of the sizes of SequenceMatcher.get_matching_blocks() inside the window
MatchTotal(a, b, alo, ahi, blo, bhi) ==
    IF alo > ahi \/ blo > bhi THEN 0
    ELSE LET m == find_longest_match(a, b, alo, ahi, blo, bhi)
         IN  IF m.size = 0 THEN 0
             ELSE m.size
                  + MatchTotal(a, b, alo, m.i - 1, blo, m.j - 1)
                  + MatchTotal(a, b, m.i + m.size, ahi, m.j + m.size, bhi)

\* number of occurrences of c in s
CountChar(s, c) == Cardinality({i \in 1..Len(s) : s[i] = c})

\* SequenceMatcher.ratio() as the pair <<2*matches, len(a)+len(b)>>
ratio(a, b) == << 2 * MatchTotal(a, b, 1, Len(a), 1, Len(b)), Len(a) + Len(b) >>

RECURSIVE SumMin(_, _, _)
SumMin(a, b, chars) ==
    IF chars = {} THEN 0
    ELSE LET c == CHOOSE x \in chars : TRUE
         IN  Min2(CountChar(a, c), CountChar(b, c)) + SumMin(a, b, chars \ {c})

\* SequenceMatcher.quick_ratio(): multiset intersection, an upper bound of ratio
quick_ratio(a, b) ==
    << 2 * SumMin(a, b, {b[i] : i \in 1..Len(b)}), Len(a) + Len(b) >>

\* SequenceMatcher.real_quick_ratio(): a cheaper upper bound
real_quick_ratio(a, b) == << 2 * Min2(Len(a), Len(b)), Len(a) + Len(b) >>

\* _calculate_ratio(matches, length) >= cutoff, cutoff in hundredths;
\* a zero length gives ratio 1.0
RatioAtLeast(r, cutoff) ==
    IF r[2] = 0 THEN TRUE ELSE 100 * r[1] >= cutoff * r[2]

\* score r1 > score r2 (both of positive length)
RatioGreater(r1, r2) == r1[1] * r2[2] > r2[1] * r1[2]

\* get_close_matches(word, possibilities, n=1, cutoff): the possibilities that
\* pass the three ratio tests, the best (score, name) first; here the list of
\* at most one name
get_close_matches(word, possibilities, cutoff) ==
    LET idx    == 1..Len(possibilities)
        score  == [i \in idx |-> ratio(possibilities[i], word)]
        passes == {i \in idx :
                      /\ RatioAtLeast(real_quick_ratio(possibilities[i], word), cutoff)
                      /\ RatioAtLeast(quick_ratio(possibilities[i], word), cutoff)
                      /\ RatioAtLeast(score[i], cutoff)}
        better(i, j) == \/ RatioGreater(score[i], score[j])
                        \/ /\ ~RatioGreater(score[j], score[i])
                           /\ StrLess(possibilities[j], possibilities[i])
    IN  IF passes = {} THEN <<>>
        ELSE << possibilities[CHOOSE i \in passes :
                                 \A j \in passes \ {i} : better(i, j)] >>

\* the cutoff get_layout_spec passes, in hundredths
FuzzyCutoff == 40

\* a lookup without the fuzzy match: exact key or the default
get_layout_spec_exact(archetype) ==
    IF IsArchetype(archetype) THEN LAYOUT_ARCHETYPES(archetype)
    ELSE LAYOUT_ARCHETYPES(DEFAULT_LAYOUT)

\* get_layout_spec(archetype) -> LayoutSpec
get_layout_spec(archetype) ==
    IF IsArchetype(archetype) THEN LAYOUT_ARCHETYPES(archetype)
    ELSE LET matches == get_close_matches(archetype, ArchetypeNames, FuzzyCutoff)
         IN  IF Len(matches) > 0 THEN LAYOUT_ARCHETYPES(matches[1])
             ELSE LAYOUT_ARCHETYPES(DEFAULT_LAYOUT)

-----------------------------------------------------------------------------
(* product_placer.py: sizing, positioning and treatment geometry.           *)
(* An image is its size <<width, height>>.                                  *)

\* SIZE_MULTIPLIERS, in hundredths
SIZE_MULTIPLIERS == [dominant |-> 65, balanced |-> 45, subtle |-> 30]

\* a lookup whose default is the dominant multiplier
SizeMultiplierDominant(size_directive) ==
    IF size_directive = "balanced" THEN SIZE_MULTIPLIERS.balanced
    ELSE IF size_directive = "subtle" THEN SIZE_MULTIPLIERS.subtle
    ELSE SIZE_MULTIPLIERS.dominant

\* SIZE_MULTIPLIERS.get(size_directive, SIZE_MULTIPLIERS["balanced"])
SizeMultiplier(size_directive) ==
    IF size_directive \in DOMAIN SIZE_MULTIPLIERS
    THEN SIZE_MULTIPLIERS[size_directive]
    ELSE SIZE_MULTIPLIERS["balanced"]

\* calculate_product_size(canvas_size, size_directive) -> int
calculate_product_size(canvas_size, size_directive) ==
    LET multiplier == SizeMultiplier(size_directive)
        base_size  == Min2(canvas_size[1], canvas_size[2])
    IN  TruncMulDiv(base_size, multiplier, 100)

\* resize_product_image(image, target_max_size) -> image
resize_product_image(image, target_max_size) ==
    LET width   == image[1]
        height  == image[2]
        max_dim == Max2(width, height)
    IN  IF max_dim <= target_max_size THEN image
        ELSE << TruncMulDiv(width, target_max_size, max_dim),
                TruncMulDiv(height, target_max_size, max_dim) >>

kwCenter == <<"c","e","n","t","e","r">>
kwLeft == <<"l","e","f","t">>
kwRight == <<"r","i","g","h","t">>
kwBottom == <<"b","o","t","t","o","m">>
kwTop == <<"t","o","p">>

\* position_directive.lower().replace("-", "_").replace(" ", "_")
NormalizePosition(position_directive) ==
    ReplaceChar(ReplaceChar(Lower(position_directive), "-", "_"), " ", "_")

\* calculate_product_position(canvas_size, product_size, position_directive, zone)
\* before the final clamp: the branch taken and the raw (x, y)
RawProductPosition(canvas_size, product_size, position_directive, zone) ==
    LET canvas_w == canvas_size[1]
        canvas_h == canvas_size[2]
        prod_w   == product_size[1]
        prod_h   == product_size[2]
        b        == get_bounds(zone, canvas_w, canvas_h)
        zone_x1  == b[1]
        zone_y1  == b[2]
        zone_x2  == b[3]
        zone_y2  == b[4]
        zone_w   == zone_x2 - zone_x1
        zone_h   == zone_y2 - zone_y1
        position == NormalizePosition(position_directive)
        zone_center_x == zone_x1 + (zone_w \div 2)
        zone_center_y == zone_y1 + (zone_h \div 2)
    IN  IF Contains(position, kwCenter) /\ ~Contains(position, kwBottom)
                                        /\ ~Contains(position, kwTop)
        THEN [branch |-> "center",
              x |-> zone_center_x - (prod_w \div 2),
              y |-> zone_center_y - (prod_h \div 2)]
        ELSE IF Contains(position, kwLeft)
        THEN [branch |-> "left",
              x |-> zone_x1 + TruncMulDiv(zone_w, 15, 100),
              y |-> zone_center_y - (prod_h \div 2)]
        ELSE IF Contains(position, kwRight)
        THEN [branch |-> "right",
              x |-> zone_x2 - prod_w - TruncMulDiv(zone_w, 10, 100),
              y |-> zone_center_y - (prod_h \div 2)]
        ELSE IF Contains(position, kwBottom)
        THEN [branch |-> "bottom",
              x |-> IF Contains(position, kwRight)
                    THEN zone_x2 - prod_w - TruncMulDiv(zone_w, 10, 100)
                    ELSE IF Contains(position, kwLeft)
                    THEN zone_x1 + TruncMulDiv(zone_w, 10, 100)
                    ELSE zone_center_x - (prod_w \div 2),
              y |-> zone_y2 - prod_h - TruncMulDiv(zone_h, 10, 100)]
        ELSE IF Contains(position, kwTop)
        THEN [branch |-> "top",
              x |-> zone_center_x - (prod_w \div 2),
              y |-> zone_y1 + TruncMulDiv(zone_h, 10, 100)]
        ELSE [branch |-> "default",
              x |-> zone_center_x - (prod_w \div 2),
              y |-> zone_center_y - (prod_h \div 2)]

\* a placement that keeps the raw coordinate
Unclamped(v, canvas_side, prod_side) == v

\* max(0, min(v, canvas_side - prod_side))
ClampToCanvas(v, canvas_side, prod_side) ==
    Max2(0, Min2(v, canvas_side - prod_side))

\* calculate_product_position(canvas_size, product_size, position_directive, zone) -> (x, y)
calculate_product_position(canvas_size, product_size, position_directive, zone) ==
    LET raw == RawProductPosition(canvas_size, product_size, position_directive, zone)
    IN  << ClampToCanvas(raw.x, canvas_size[1], product_size[1]),
           ClampToCanvas(raw.y, canvas_size[2], product_size[2]) >>

\* shadow_extend = blur_radius * 2 + max(abs(offset[0]), abs(offset[1]))
ShadowExtend(offset, blur_radius) == blur_radius * 2 + Max2(Abs(offset[1]), Abs(offset[2]))

\* an effect that returns the image as it came
apply_drop_shadow_none(image, offset, blur_radius) == image

\* apply_drop_shadow(image, offset, blur_radius): the size of the returned image
apply_drop_shadow(image, offset, blur_radius) ==
    LET shadow_extend == ShadowExtend(offset, blur_radius)
    IN  << image[1] + shadow_extend * 2, image[2] + shadow_extend * 2 >>

\* apply_drop_shadow(image, offset, blur_radius): the returned image, with the
\* places at which the shadow shape and the original are pasted
DropShadow(image, offset, blur_radius) ==
    LET shadow_extend == ShadowExtend(offset, blur_radius)
    IN  [size      |-> apply_drop_shadow(image, offset, blur_radius),
         shadow_at |-> <<shadow_extend + offset[1], shadow_extend + offset[2]>>,
         image_at  |-> <<shadow_extend, shadow_extend>>]

kwShadow == <<"s","h","a","d","o","w">>
kwFloating == <<"f","l","o","a","t","i","n","g">>
kwReflection == <<"r","e","f","l","e","c","t","i","o","n">>
kwSurface == <<"s","u","r","f","a","c","e">>

\* apply_drop_shadow's default offset and blur_radius
DefaultShadowOffset == <<8, 8>>
DefaultShadowBlur == 15
\* the subtle shadow apply_product_treatment falls back to
SubtleShadowOffset == <<5, 5>>
SubtleShadowBlur == 10

\* which effect apply_product_treatment(image, treatment) applies
TreatmentKind(treatment) ==
    LET treatment_lower == Lower(treatment)
    IN  IF Contains(treatment_lower, kwShadow) \/ Contains(treatment_lower, kwFloating)
        THEN "shadow"
        ELSE IF Contains(treatment_lower, kwReflection) \/ Contains(treatment_lower, kwSurface)
        THEN "reflection"
        ELSE "subtle"

\* apply_product_treatment(image, treatment): the size of the returned image
apply_product_treatment(image, treatment) ==
    CASE TreatmentKind(treatment) = "shadow" ->
            apply_drop_shadow(image, DefaultShadowOffset, DefaultShadowBlur)
      [] TreatmentKind(treatment) = "reflection" ->
            << image[1], TruncMulDiv(image[2], 140, 100) >>
      [] OTHER ->
            apply_drop_shadow(image, SubtleShadowOffset, SubtleShadowBlur)

\* a test that counts any pixel short of full opacity as transparency
has_any_transparency(min_alpha) == min_alpha < 255

\* has_transparency(image) for an RGBA image whose alpha channel has this minimum
has_transparency(min_alpha) == min_alpha < 250

-----------------------------------------------------------------------------
(* text_renderer.py: wrap_text *)

\* str.split(): the maximal runs of non-whitespace characters
IsSpace(c) == c \in {" ", "\t", "\n"}

RECURSIVE SplitWords(_, _, _)
SplitWords(text, word, words) ==
    IF text = << >>
    THEN IF word = << >> THEN words ELSE Append(words, word)
    ELSE IF IsSpace(Head(text))
    THEN SplitWords(Tail(text), << >>, IF word = << >> THEN words ELSE Append(words, word))
    ELSE SplitWords(Tail(text), Append(word, Head(text)), words)

str_split(text) == SplitWords(text, << >>, << >>)

RECURSIVE str_join(_)
\* " ".join(words)
str_join(words) ==
    IF words = << >> THEN << >>
    ELSE IF Len(words) = 1 THEN words[1]
    ELSE words[1] \o <<" ">> \o str_join(Tail(words))

\* the advance of a character in units of the font size: narrow, wide, other
CharAdvance(c) == CASE c = "i" -> 1 [] c = " " -> 1 [] c = "m" -> 3 [] OTHER -> 2

RECURSIVE LineAdvance(_)
LineAdvance(line) == IF line = << >> THEN 0 ELSE CharAdvance(Head(line)) + LineAdvance(Tail(line))

\* bbox = font.getbbox(line); bbox[2] - bbox[0]
LineWidth(font, line) == font.size * LineAdvance(line)

\* a breaker that never breaks: all the words on one line
wrap_text_unbroken(text, font, max_width) ==
    IF text = << >> THEN << >> ELSE << str_join(str_split(text)) >>

RECURSIVE WrapWords_dropping(_, _, _, _, _)
\* a loop that forgets the line it was filling when the words run out
WrapWords_dropping(words, current_line, lines, font, max_width) ==
    IF words = << >>
    THEN lines
    ELSE LET word       == Head(words)
             test_line  == str_join(Append(current_line, word))
         IN  IF LineWidth(font, test_line) <= max_width
             THEN WrapWords_dropping(Tail(words), Append(current_line, word), lines,
                                     font, max_width)
             ELSE WrapWords_dropping(Tail(words), <<word>>,
                                     IF current_line # << >>
                                     THEN Append(lines, str_join(current_line)) ELSE lines,
                                     font, max_width)

RECURSIVE WrapWords(_, _, _, _, _)
\* the loop of wrap_text over the remaining words
WrapWords(words, current_line, lines, font, max_width) ==
    IF words = << >>
    THEN IF current_line # << >> THEN Append(lines, str_join(current_line)) ELSE lines
    ELSE LET word       == Head(words)
             test_line  == str_join(Append(current_line, word))
             line_width == LineWidth(font, test_line)
         IN  IF line_width <= max_width
             THEN WrapWords(Tail(words), Append(current_line, word), lines, font, max_width)
             ELSE WrapWords(Tail(words), <<word>>,
                            IF current_line # << >>
                            THEN Append(lines, str_join(current_line)) ELSE lines,
                            font, max_width)

\* wrap_text(text, font, max_width): the lines, each a str
wrap_text(text, font, max_width) ==
    IF text = << >> THEN << >>
    ELSE WrapWords(str_split(text), << >>, << >>, font, max_width)

-----------------------------------------------------------------------------
(* compositor.py: Compositor._get_contrasting_text_color *)

BLACK == <<"#","0","0","0","0","0","0">>
WHITE == <<"#","F","F","F","F","F","F">>

HexDigits == <<"0","1","2","3","4","5","6","7","8","9","a","b","c","d","e","f">>

IsHexDigit(c) == \E i \in 1..16 : HexDigits[i] = LowerChar(c)
HexDigitVal(c) == (CHOOSE i \in 1..16 : HexDigits[i] = LowerChar(c)) - 1

RECURSIVE HexVal(_)
\* value of a non-empty string of hex digits
HexVal(s) ==
    IF Len(s) = 1 THEN HexDigitVal(s[1])
    ELSE 16 * HexVal(SubSeq(s, 1, Len(s) - 1)) + HexDigitVal(s[Len(s)])

RECURSIVE RStrip(_, _)
RStrip(s, c) ==
    IF Len(s) > 0 /\ s[Len(s)] = c THEN RStrip(SubSeq(s, 1, Len(s) - 1), c) ELSE s

\* int(s, 16) for a str of at most two characters: surrounding spaces are
\* stripped, one sign is accepted, the rest must be one or more hex digits.
\* [ok |-> FALSE] is ValueError.
PyIntHex(s) ==
    LET t      == RStrip(LStrip(s, " "), " ")
        signed == Len(t) > 0 /\ t[1] \in {"+", "-"}
        digits == IF signed THEN Tail(t) ELSE t
    IN  IF Len(digits) = 0 \/ \E i \in 1..Len(digits) : ~IsHexDigit(digits[i])
        THEN [ok |-> FALSE, val |-> 0]
        ELSE [ok |-> TRUE,
              val |-> IF signed /\ t[1] = "-" THEN 0 - HexVal(digits) ELSE HexVal(digits)]

\* (0.299*r + 0.587*g + 0.114*b) / 255 > 0.5 in binary64.  It agrees with the
\* exact comparison for all 0 <= r, g, b <= 255 except (218, 58, 248), whose
\* exact luminance is 0.5 and whose computed one is 0.5000000000000001.
LuminanceAboveHalf(r, g, b) ==
    \/ 299 * r + 587 * g + 114 * b > 127500
    \/ <<r, g, b>> = <<218, 58, 248>>

\* Compositor._get_contrasting_text_color(background_color) -> str
get_contrasting_text_color(background_color) ==
    LET hex_color == LStrip(background_color, "#")
        r == PyIntHex(Slice(hex_color, 0, 2))
        g == PyIntHex(Slice(hex_color, 2, 4))
        b == PyIntHex(Slice(hex_color, 4, 6))
    IN  IF ~r.ok \/ ~g.ok \/ ~b.ok THEN WHITE
        ELSE IF LuminanceAboveHalf(r.val, g.val, b.val) THEN BLACK ELSE WHITE

-----------------------------------------------------------------------------
(* The pure functions, applied to inputs drawn from bounded sets *)

NotDone == [done |-> FALSE]
Done(v) == [done |-> TRUE, val |-> v]
NoCall == [f |-> "none"]

\* canvas sides: the small ones and those of real channels and of the tests
Sides == (1..MaxSide) \cup {90, 100, 180, 628, 1000, 1080, 1200}
BoundsSides == (1..MaxSide) \cup {100, 1080}

\* zone fractions (hundredths) from which arbitrary zones are built
Fractions == {0, 29, 40, 60, 70, 100}

RegistryZones ==
    UNION { { LAYOUT_ARCHETYPES(ArchetypeNames[i]).product_zone,
              LAYOUT_ARCHETYPES(ArchetypeNames[i]).headline_zone,
              LAYOUT_ARCHETYPES(ArchetypeNames[i]).body_zone,
              LAYOUT_ARCHETYPES(ArchetypeNames[i]).cta_zone,
              LAYOUT_ARCHETYPES(ArchetypeNames[i]).logo_zone }
            : i \in 1..Len(ArchetypeNames) }

\* zones with 0 <= x_start < x_end <= 1 and 0 <= y_start < y_end <= 1
ValidZone(z) ==
    /\ 0 <= z.x_start /\ z.x_start < z.x_end /\ z.x_end <= 100
    /\ 0 <= z.y_start /\ z.y_start < z.y_end /\ z.y_end <= 100

Zones ==
    RegistryZones
    \cup {LayoutZone(10, 90, 20, 80), LayoutZone(25, 75, 25, 75)}
    \cup {z \in [x_start : Fractions, x_end : Fractions,
                 y_start : Fractions, y_end : Fractions] : ValidZone(z)}

PositionZones ==
    {LAYOUT_ARCHETYPES(ArchetypeNames[i]).product_zone : i \in 1..Len(ArchetypeNames)}
    \cup {LayoutZone(0, 100, 0, 100)}

PositionCanvases ==
    {<<s, s>> : s \in 1..MaxSide}
    \cup {<<100, 100>>, <<200, 120>>, <<1000, 1000>>, <<1080, 1080>>, <<1200, 628>>}

ProductSizes ==
    {<<1, 1>>, <<2, 3>>, <<154, 154>>, <<200, 200>>, <<484, 300>>, <<778, 778>>, <<1300, 50>>}

PositionDirectives == {
    <<"c","e","n","t","e","r">>,
    <<"l","e","f","t","-","t","h","i","r","d">>,
    <<"r","i","g","h","t">>,
    <<"b","o","t","t","o","m">>,
    <<"t","o","p">>,
    <<"b","o","t","t","o","m","-","r","i","g","h","t">>,
    <<"b","o","t","t","o","m","-","l","e","f","t">>,
    <<"t","o","p","-","l","e","f","t">>,
    <<"T","o","p"," ","R","i","g","h","t">>,
    <<"b","o","t","t","o","m","-","c","e","n","t","e","r">>,
    <<"C","E","N","T","E","R">>,
    <<"u","p","p","e","r"," ","a","r","e","a">>,
    <<>> }

SizeDirectives == {"dominant", "balanced", "subtle", "huge", ""}

Images ==
    ((1..MaxImg) \X (1..MaxImg)) \cup {<<1000, 500>>, <<200, 200>>, <<1000, 1>>}

\* the targets tried on an image: every small one, and the tests' 500
Targets(image) == IF Max2(image[1], image[2]) <= MaxImg THEN 1..MaxImg ELSE {500}

ArchetypeQueries ==
    {ArchetypeNames[i] : i \in 1..Len(ArchetypeNames)} \cup {
    <<"H","e","r","o"," ","P","r","o","d","u","c","t">>,
    <<"T","o","t","a","l","l","y","U","n","k","n","o","w","n">>,
    <<"N","o","n","e","x","i","s","t","e","n","t","L","a","y","o","u","t">>,
    <<>>,
    <<"L","i","f","e","s","t","y","l","e">>,
    <<"m","i","n","i","m","a","l"," ","p","r","o","d","u","c","t"," ","f","o","c","u","s">>,
    <<"P","r","o","d","u","c","t">>,
    <<"H","e","r","o"," ","S","h","o","t">>,
    <<"P","r","o","b","l","e","m"," ","S","o","l","u","t","i","o","n">>,
    <<"F","o","c","u","s">>,
    <<"S","t","a","t"," ","O","v","e","r","l","a","y">>,
    <<"x","x">> }

HexAlphabet == {"#", "F", "0", "G"}

HexInputs == SeqsUpTo(HexAlphabet, MaxHexLen) \cup {
    <<"#","F","F","F","F","F","F">>,
    <<"#","0","0","0","0","0","0">>,
    <<"#","f","f","f","f","f","f">>,
    <<"#","D","A","3","A","F","8">>,
    <<"#","1","6","C","E","0","0">>,
    <<"#","8","0","8","0","8","0">>,
    <<"#","7","F","7","F","7","F">>,
    <<"#","F","F","F","F","F">>,
    <<"#","F","F","F">>,
    <<"#","+","F","+","F","+","F">>,
    <<"#","-","F","-","F","-","F">>,
    <<"#"," ","F"," ","F"," ","F">>,
    <<"#","#","F","F","F","F","F","F">>,
    <<"#","F","F","F","F","F","F","F","F">>,
    <<"F","F","F","F","F","F">>,
    <<"#","G","G","G","G","G","G">>,
    <<"#","F","F","F","F","F","G">> }

\* images, offsets, blur radii and treatments for the product effects
ShadowImages == {<<1, 1>>, <<30, 30>>, <<60, 45>>, <<702, 526>>, <<800, 600>>} \cup ((1..MaxSide) \X (1..MaxSide))
ShadowOffsets == {DefaultShadowOffset, SubtleShadowOffset, <<0, 0>>, <<-3, 4>>, <<2, -9>>}
ShadowBlurs == {DefaultShadowBlur, SubtleShadowBlur, 0, 1}
Treatments ==
    { <<"f","l","o","a","t","i","n","g"," ","w","i","t","h"," ","s","h","a","d","o","w">>,
      <<"S","o","f","t"," ","S","h","a","d","o","w">>,
      <<"o","n"," ","s","u","r","f","a","c","e">>,
      <<"n","o","n","e">>,
      <<"c","l","e","a","n"," ","c","u","t","o","u","t">>,
      <<"f","l","o","a","t","i","n","g"," ","o","n"," ","s","u","r","f","a","c","e">>,
      <<"M","i","r","r","o","r"," ","R","E","F","L","E","C","T","I","O","N">>,
      << >> }

\* texts, fonts and widths for wrap_text
MaxTextLen == 6
WrapTexts ==
    SeqsUpTo({"m", "i", " "}, MaxTextLen)
        \cup {<<"m", "\t", "i">>, <<"\n", "m", " ", "\t", "i", "\n">>, <<"\t", "\n">>}
FontSizes == {1, 2}
WrapWidths == {0, 2, 4, 7}

\* Compositor._resize_to_fit: the size asked of Image.resize (max 0 stands for None)
_resize_to_fit(image, max_width, max_height) ==
    LET width  == image[1]
        height == image[2]
        byW    == max_width # 0 /\ width > max_width
        byH    == max_height # 0 /\ height > max_height
        \* scale as a fraction <<numerator, denominator>>
        scale  == IF byW /\ byH
                  THEN IF max_height * width < max_width * height
                       THEN <<max_height, height>> ELSE <<max_width, width>>
                  ELSE IF byW THEN <<max_width, width>>
                  ELSE IF byH THEN <<max_height, height>>
                  ELSE <<1, 1>>
    IN  IF scale[1] < scale[2]
        THEN << TruncMulDiv(width, scale[1], scale[2]),
                TruncMulDiv(height, scale[1], scale[2]) >>
        ELSE image

\* logos of every size up to MaxFit, a banner and a hairline; limits of 0 (None),
\* every small size, and the height of the tallest registered logo zone
MaxFit == 5
FitImages == ((1..MaxFit) \X (1..MaxFit)) \cup {<<400, 100>>, <<3000, 2>>, <<1, 1000>>}
FitLimits == (0..MaxFit) \cup {97}

InitFn ==
    /\ ret = NotDone
    /\ \/ call \in {[f |-> "_resize_to_fit", image |-> image, max_width |-> mw,
                     max_height |-> mh] : image \in FitImages, mw \in FitLimits,
                                          mh \in FitLimits}
       \/ call \in {[f |-> "get_bounds", zone |-> z, width |-> w, height |-> h]
                      : z \in Zones, w \in BoundsSides, h \in BoundsSides}
       \/ call \in {[f |-> "calculate_product_size", canvas_size |-> <<w, h>>,
                     size_directive |-> d] : w \in Sides, h \in Sides, d \in SizeDirectives}
       \/ \E image \in Images :
            call \in {[f |-> "resize_product_image", image |-> image,
                       target_max_size |-> t] : t \in Targets(image)}
       \/ call \in {[f |-> "calculate_product_position", canvas_size |-> c,
                     product_size |-> p, position_directive |-> d, zone |-> z]
                      : c \in PositionCanvases, p \in ProductSizes,
                        d \in PositionDirectives, z \in PositionZones}
       \/ call \in {[f |-> "get_layout_spec", archetype |-> a] : a \in ArchetypeQueries}
       \/ call \in {[f |-> "contrast_color", background_color |-> s] : s \in HexInputs}
       \/ call \in {[f |-> "apply_drop_shadow", image |-> i, offset |-> o, blur_radius |-> b]
                      : i \in ShadowImages, o \in ShadowOffsets, b \in ShadowBlurs}
       \/ call \in {[f |-> "apply_product_treatment", image |-> i, treatment |-> t]
                      : i \in ShadowImages, t \in Treatments}
       \/ call \in {[f |-> "wrap_text", text |-> s, font |-> [size |-> k], max_width |-> m]
                      : s \in WrapTexts, k \in FontSizes, m \in WrapWidths}

Apply_get_bounds ==
    /\ call.f = "get_bounds" /\ ~ret.done
    /\ ret' = Done(get_bounds(call.zone, call.width, call.height))
    /\ UNCHANGED call

Apply_calculate_product_size ==
    /\ call.f = "calculate_product_size" /\ ~ret.done
    /\ ret' = Done(calculate_product_size(call.canvas_size, call.size_directive))
    /\ UNCHANGED call

Apply_resize_product_image ==
    /\ call.f = "resize_product_image" /\ ~ret.done
    /\ ret' = Done(resize_product_image(call.image, call.target_max_size))
    /\ UNCHANGED call

Apply_calculate_product_position ==
    /\ call.f = "calculate_product_position" /\ ~ret.done
    /\ ret' = Done(calculate_product_position(call.canvas_size, call.product_size,
                                              call.position_directive, call.zone))
    /\ UNCHANGED call

Apply_get_layout_spec ==
    /\ call.f = "get_layout_spec" /\ ~ret.done
    /\ ret' = Done(get_layout_spec(call.archetype))
    /\ UNCHANGED call

Apply_contrast_color ==
    /\ call.f = "contrast_color" /\ ~ret.done
    /\ ret' = Done(get_contrasting_text_color(call.background_color))
    /\ UNCHANGED call

Apply_apply_drop_shadow ==
    /\ call.f = "apply_drop_shadow" /\ ~ret.done
    /\ ret' = Done(DropShadow(call.image, call.offset, call.blur_radius))
    /\ UNCHANGED call

Apply_apply_product_treatment ==
    /\ call.f = "apply_product_treatment" /\ ~ret.done
    /\ ret' = Done(apply_product_treatment(call.image, call.treatment))
    /\ UNCHANGED call

Apply_wrap_text ==
    /\ call.f = "wrap_text" /\ ~ret.done
    /\ ret' = Done(wrap_text(call.text, call.font, call.max_width))
    /\ UNCHANGED call

-----------------------------------------------------------------------------
(* Compositor.compose: values *)

NoLayout == [name |-> <<>>]
NoCanvas == [size |-> <<0, 0>>, drawn |-> <<>>]
NoFile == [written |-> FALSE]
NoResult == [kind |-> "none"]
NoInput == [present |-> FALSE]
NoWorld == [present |-> FALSE]

\* the compose call is not running: the state of the pure-function harness
ComposeIdle ==
    /\ input = NoInput
    /\ world = NoWorld
    /\ pc = "idle"
    /\ layout = NoLayout
    /\ canvas = NoCanvas
    /\ stages = <<>>
    /\ completed = <<>>
    /\ queue = <<>>
    /\ inflight = {}
    /\ outfile = NoFile
    /\ result = NoResult

\* no concurrent calls are running
ParIdle ==
    /\ tasks = << >>
    /\ heap = << >>
    /\ disk = {}

\* no graph run under way
GraphIdle ==
    /\ gstate = [present |-> FALSE]
    /\ branches = << >>

\* no checkpoint database in use
CkptIdle ==
    /\ checkpoints = {}
    /\ ckpt = [op |-> "none"]

-----------------------------------------------------------------------------
(* Specification of the pure functions *)

InitFunctions == InitFn /\ ComposeIdle /\ ParIdle /\ GraphIdle /\ CkptIdle

Apply_resize_to_fit ==
    /\ call.f = "_resize_to_fit" /\ ~ret.done
    /\ ret' = Done(_resize_to_fit(call.image, call.max_width, call.max_height))
    /\ UNCHANGED call

NextFunctions ==
    /\ \/ Apply_resize_to_fit
       \/ Apply_get_bounds
       \/ Apply_calculate_product_size
       \/ Apply_resize_product_image
       \/ Apply_calculate_product_position
       \/ Apply_get_layout_spec
       \/ Apply_contrast_color
       \/ Apply_apply_drop_shadow
       \/ Apply_apply_product_treatment
       \/ Apply_wrap_text
    /\ UNCHANGED composeVars
    /\ UNCHANGED parVars
    /\ UNCHANGED graphVars
    /\ UNCHANGED ckptVars

SpecFn == InitFunctions /\ [][NextFunctions]_vars

-----------------------------------------------------------------------------
(* Claims about the pure functions (checked under SpecFn) *)

Applied(f) == call.f = f /\ ret.done

\* exact floor of side * k/100
FloorHundredths(side, k) == (side * k) \div 100

\* C5 as stated: calculate_product_position always returns (x, y) with
\* 0 <= x <= canvas_w - prod_w and 0 <= y <= canvas_h - prod_h, also for a
\* product wider or taller than the canvas.
C5_InsideCanvasAlways ==
    Applied("calculate_product_position") =>
        /\ 0 <= ret.val[1] /\ ret.val[1] <= call.canvas_size[1] - call.product_size[1]
        /\ 0 <= ret.val[2] /\ ret.val[2] <= call.canvas_size[2] - call.product_size[2]

\* C5 amended: the returned x and y are never negative; in a dimension where
\* the product fits the canvas the coordinate is at most canvas - product, and
\* in a dimension where the product is larger than the canvas it is 0.
C5_ClampedPosition ==
    Applied("calculate_product_position") =>
        \A d \in {1, 2} :
            /\ ret.val[d] >= 0
            /\ call.product_size[d] <= call.canvas_size[d]
                  => ret.val[d] <= call.canvas_size[d] - call.product_size[d]
            /\ call.product_size[d] > call.canvas_size[d] => ret.val[d] = 0

\* C5 witness: a product that fits the canvas and whose raw position the
\* clamp had to move
C5_Witness ==
    /\ Applied("calculate_product_position")
    /\ call.product_size[1] <= call.canvas_size[1]
    /\ call.product_size[2] <= call.canvas_size[2]
    /\ RawProductPosition(call.canvas_size, call.product_size,
                          call.position_directive, call.zone).x # ret.val[1]

\* C6 as stated: get_bounds of a valid zone returns the four exact floors and
\* a rectangle with x1 < x2 and y1 < y2.
C6_ExactFloorsNonEmpty ==
    (Applied("get_bounds") /\ ValidZone(call.zone)) =>
        /\ ret.val = << FloorHundredths(call.width, call.zone.x_start),
                        FloorHundredths(call.height, call.zone.y_start),
                        FloorHundredths(call.width, call.zone.x_end),
                        FloorHundredths(call.height, call.zone.y_end) >>
        /\ ret.val[1] < ret.val[3]
        /\ ret.val[2] < ret.val[4]

\* C6 amended: every coordinate get_bounds returns is the exact floor of
\* side * fraction or one less, lies in 0..side, and x1 <= x2, y1 <= y2 (the
\* rectangle may be empty).
C6_BoundsWithinOneOfFloor ==
    (Applied("get_bounds") /\ ValidZone(call.zone)) =>
        LET near(c, side, k) == /\ FloorHundredths(side, k) - 1 <= c
                                /\ c <= FloorHundredths(side, k)
                                /\ 0 <= c /\ c <= side
        IN  /\ near(ret.val[1], call.width, call.zone.x_start)
            /\ near(ret.val[2], call.height, call.zone.y_start)
            /\ near(ret.val[3], call.width, call.zone.x_end)
            /\ near(ret.val[4], call.height, call.zone.y_end)
            /\ ret.val[1] <= ret.val[3]
            /\ ret.val[2] <= ret.val[4]

\* C6 witness: a valid zone whose pixel rectangle is empty
C6_Witness ==
    /\ Applied("get_bounds") /\ ValidZone(call.zone)
    /\ ret.val[1] = ret.val[3]

\* C7: calculate_product_size is the truncated multiplier * min(width, height)
\* with 0.65 / 0.45 / 0.30, unknown categories sized as balanced; 702, 486 and
\* 324 on a 1080x1080 canvas.
C7_ProductSize ==
    Applied("calculate_product_size") =>
        LET m == CASE call.size_directive = "dominant" -> 65
                   [] call.size_directive = "subtle" -> 30
                   [] OTHER -> 45
            base == IF call.canvas_size[1] <= call.canvas_size[2]
                    THEN call.canvas_size[1] ELSE call.canvas_size[2]
        IN  /\ ret.val = (base * m) \div 100
            /\ call.canvas_size = <<1080, 1080>> =>
                   ret.val = CASE call.size_directive = "dominant" -> 702
                               [] call.size_directive = "subtle" -> 324
                               [] OTHER -> 486

\* C7 witness: an unrecognised category on the 1080x1080 canvas
C7_Witness ==
    /\ Applied("calculate_product_size")
    /\ call.canvas_size = <<1080, 1080>>
    /\ call.size_directive = "huge"
    /\ ret.val = 486

\* C8 as stated: resize_product_image leaves an image whose larger side is
\* <= target unchanged; otherwise it returns the exact floors of
\* side * target / max_dim, its larger side equals target and no side grows.
C8_ResizeExact ==
    Applied("resize_product_image") =>
        LET w == call.image[1]
            h == call.image[2]
            t == call.target_max_size
            m == IF w >= h THEN w ELSE h
        IN  IF m <= t THEN ret.val = call.image
            ELSE /\ ret.val = << (w * t) \div m, (h * t) \div m >>
                 /\ (IF ret.val[1] >= ret.val[2] THEN ret.val[1] ELSE ret.val[2]) = t
                 /\ ret.val[1] <= w /\ ret.val[2] <= h

MalformedHex(s) ==
    LET h == LStrip(s, "#")
    IN  Len(h) < 6 \/ \E i \in 1..6 : ~IsHexDigit(h[i])

\* C10 as stated: black exactly when the colour is well formed and its
\* luminance (0.299R + 0.587G + 0.114B)/255 is > 0.5, white otherwise (at
\* exactly 0.5, and for every malformed string).
C10_ContrastColor ==
    Applied("contrast_color") =>
        LET h == LStrip(call.background_color, "#")
            r == HexVal(Slice(h, 0, 2))
            g == HexVal(Slice(h, 2, 4))
            b == HexVal(Slice(h, 4, 6))
        IN  IF MalformedHex(call.background_color) THEN ret.val = WHITE
            ELSE ret.val = (IF 299 * r + 587 * g + 114 * b > 127500
                            THEN BLACK ELSE WHITE)

-----------------------------------------------------------------------------
(* Compositor.compose: inputs and collaborators *)

\* Python truthiness of a str (text fields are "" when None or empty)
Truthy(s) == s # ""
\* Python truthiness of a str held as a character sequence
TruthySeq(s) == Len(s) > 0

HttpPrefix == <<"h","t","t","p",":","/","/">>
HttpsPrefix == <<"h","t","t","p","s",":","/","/">>
\* source.startswith(("http://", "https://"))
IsUrl(source) == StartsWith(source, HttpPrefix) \/ StartsWith(source, HttpsPrefix)

kwExampleCom == <<"e","x","a","m","p","l","e",".","c","o","m">>
kwPlaceholder == <<"p","l","a","c","e","h","o","l","d","e","r">>
\* "example.com" in logo_source or "placeholder" in logo_source.lower()
IsPlaceholderLogo(logo_source) ==
    Contains(logo_source, kwExampleCom) \/ Contains(Lower(logo_source), kwPlaceholder)

UrlProduct == <<"h","t","t","p","s",":","/","/","c","d","n","/","p",".","p","n","g">>
LocalProduct == <<"p",".","p","n","g">>
NoLogo == <<>>
PlaceholderLogo == <<"h","t","t","p","s",":","/","/","e","x","a","m","p","l","e",".","c","o","m","/","l","o","g","o",".","p","n","g">>
NamedPlaceholderLogo == <<"l","o","g","o","s","/","P","l","a","c","e","h","o","l","d","e","r",".","p","n","g">>
UrlStoreLogo == <<"h","t","t","p","s",":","/","/","c","d","n","/","s",".","p","n","g">>
LocalStoreLogo == <<"l","o","g","o","s","/","s",".","p","n","g">>
UrlProductLogo == <<"h","t","t","p",":","/","/","c","d","n","/","b",".","p","n","g">>
LocalProductLogo == <<"l","o","g","o","s","/","b",".","p","n","g">>

\* product_brand = None
NoBrand == [present |-> FALSE, brand_name |-> "", logo_url |-> NoLogo,
            primary |-> <<>>, accent |-> <<>>]

Brand(name, logo, primary, accent) ==
    [present |-> TRUE, brand_name |-> name, logo_url |-> logo,
     primary |-> primary, accent |-> accent]

StoreBrand == Brand("Acme", UrlStoreLogo, <<"#","1","A","1","A","2","E">>, <<"#","F","F","6","B","3","5">>)
ProductBrand == Brand("Sonic", UrlProductLogo, <<"#","F","F","F","F","F","F">>, <<>>)

\* a CompositionInput with every field set; the scenarios vary it
BaseInput ==
    [present |-> TRUE,
     background_path |-> "scene.png",
     product_image_source |-> LocalProduct,
     ad_copy |-> [headline |-> "Your Focus, Engineered",
                  subheadline |-> "40 Hours of Pure Sound",
                  body_copy |-> "Premium headphones",
                  cta_text |-> "Shop Now",
                  cta_urgency |-> "",
                  legal_disclaimer |-> ""],
     concept |-> [layout_archetype |-> HeroName,
                  product_placement |-> [position |-> kwCenter,
                                         size |-> "dominant",
                                         treatment |-> <<"f","l","o","a","t","i","n","g"," ","w","i","t","h"," ","s","h","a","d","o","w">>]],
     store_brand |-> StoreBrand,
     product_brand |-> NoBrand,
     brand_strategy |-> "store_dominant",
     channel |-> [width |-> 1080, height |-> 1080],
     output_path |-> "out/ad.png",
     output_format |-> "PNG",
     remove_product_bg |-> TRUE]

\* what a source holds: status is "ok", "missing" (no such file, HTTP error,
\* unreachable) or "undecodable"; size and min_alpha describe an ok image
Asset(status, size, min_alpha) == [status |-> status, size |-> size, min_alpha |-> min_alpha]

BaseWorld ==
    [present |-> TRUE,
     background   |-> Asset("ok", <<1080, 1080>>, 255),
     product      |-> Asset("ok", <<800, 600>>, 255),
     store_logo   |-> Asset("ok", <<400, 100>>, 0),
     product_logo |-> Asset("ok", <<64, 64>>, 0)]

ChannelDims == {<<1080, 1080>>, <<1200, 628>>, <<100, 60>>}
BackgroundAssets ==
    {Asset("ok", <<1080, 1080>>, 255), Asset("ok", <<512, 768>>, 255),
     Asset("missing", <<0, 0>>, 0), Asset("undecodable", <<0, 0>>, 0)}
ProductAssets ==
    {Asset("ok", <<800, 600>>, 255), Asset("ok", <<30, 30>>, 0),
     Asset("ok", <<30, 30>>, 249), Asset("ok", <<30, 30>>, 250),
     Asset("missing", <<0, 0>>, 0), Asset("undecodable", <<0, 0>>, 0)}
StoreLogoAssets ==
    {Asset("ok", <<400, 100>>, 0), Asset("ok", <<3000, 2>>, 0),
     Asset("missing", <<0, 0>>, 0), Asset("undecodable", <<0, 0>>, 0)}
ProductLogoAssets ==
    {Asset("ok", <<64, 64>>, 0), Asset("missing", <<0, 0>>, 0)}

Placements ==
    { [position |-> kwCenter, size |-> "dominant", treatment |-> <<"f","l","o","a","t","i","n","g"," ","w","i","t","h"," ","s","h","a","d","o","w">>],
      [position |-> <<"b","o","t","t","o","m","-","r","i","g","h","t">>, size |-> "subtle", treatment |-> <<"o","n"," ","s","u","r","f","a","c","e">>] }

\* canvas, output and background variations
ScenariosCanvas ==
    { [input |-> [BaseInput EXCEPT !.channel = [width |-> d[1], height |-> d[2]],
                                   !.output_format = fmt,
                                   !.concept.layout_archetype = a,
                                   !.ad_copy.legal_disclaimer = dis],
       world |-> [BaseWorld EXCEPT !.background = bg]]
      : d \in ChannelDims, fmt \in {"PNG", "JPEG"},
        a \in {HeroName, <<"T","o","t","a","l","l","y","U","n","k","n","o","w","n">>}, dis \in {"", "Terms apply"},
        bg \in BackgroundAssets }

\* product variations
ScenariosProduct ==
    { [input |-> [BaseInput EXCEPT !.channel = [width |-> d[1], height |-> d[2]],
                                   !.product_image_source = src,
                                   !.remove_product_bg = rm,
                                   !.concept.product_placement = pl],
       world |-> [BaseWorld EXCEPT !.product = p]]
      : d \in ChannelDims, src \in {UrlProduct, LocalProduct}, rm \in BOOLEAN,
        pl \in Placements, p \in ProductAssets }

\* brand and logo variations
ScenariosBrand ==
    { [input |-> [BaseInput EXCEPT !.brand_strategy = st,
                                   !.store_brand.logo_url = sl,
                                   !.store_brand.brand_name = sn,
                                   !.product_brand = pb],
       world |-> [BaseWorld EXCEPT !.store_logo = sa, !.product_logo = pa]]
      : st \in {"store_dominant", "product_dominant", "co_branded"},
        sl \in {NoLogo, PlaceholderLogo, NamedPlaceholderLogo, UrlStoreLogo, LocalStoreLogo},
        sn \in {"Acme", ""},
        pb \in {NoBrand, ProductBrand, [ProductBrand EXCEPT !.logo_url = LocalProductLogo]},
        sa \in StoreLogoAssets, pa \in ProductLogoAssets }

\* copy variations: the optional texts present or not
ScenariosCopy ==
    { [input |-> [BaseInput EXCEPT !.ad_copy.subheadline = sub,
                                   !.ad_copy.body_copy = body,
                                   !.ad_copy.cta_urgency = urg,
                                   !.brand_strategy = st,
                                   !.product_brand = pb],
       world |-> BaseWorld]
      : sub \in {"", "40 Hours of Pure Sound"}, body \in {"", "Premium headphones"},
        urg \in {"", "Ends Sunday"}, st \in {"store_dominant", "product_dominant"},
        pb \in {NoBrand, ProductBrand} }

\* every source a URL: the product and both logos are fetched over the network
ScenariosFetch ==
    { [input |-> [BaseInput EXCEPT !.channel = [width |-> d[1], height |-> d[2]],
                                   !.product_image_source = UrlProduct,
                                   !.brand_strategy = st,
                                   !.product_brand = ProductBrand],
       world |-> [BaseWorld EXCEPT !.product = p, !.store_logo = sa, !.product_logo = pa]]
      : d \in ChannelDims, st \in {"store_dominant", "product_dominant", "co_branded"},
        p \in {Asset("ok", <<800, 600>>, 255), Asset("missing", <<0, 0>>, 0)},
        sa \in {Asset("ok", <<400, 100>>, 0), Asset("missing", <<0, 0>>, 0)},
        pa \in ProductLogoAssets }

\* the fields of CompositionInput without a default, and those with one
RequiredFields ==
    {"background_path", "product_image_source", "ad_copy", "concept", "store_brand",
     "channel", "output_path"}
OptionalFields == {"product_brand", "brand_strategy", "output_format", "remove_product_bg"}

\* the default of an optional field of CompositionInput
FieldDefault(f) ==
    CASE f = "product_brand"     -> NoBrand
      [] f = "brand_strategy"    -> "store_dominant"
      [] f = "output_format"     -> "PNG"
      [] f = "remove_product_bg" -> TRUE

\* keyword arguments that leave the given fields out (what stands in the record
\* for an omitted field is never read)
Omit(kwargs, fields) ==
    [f \in DOMAIN kwargs \cup {"omitted"} |-> IF f = "omitted" THEN fields ELSE kwargs[f]]

\* the fields the keyword arguments leave out
Omitted(kwargs) == IF "omitted" \in DOMAIN kwargs THEN kwargs.omitted ELSE {}

\* a model class that accepts whatever it is given
CompositionInput_unchecked(kwargs) == [ok |-> TRUE, error |-> "", value |-> kwargs]

\* CompositionInput(**kwargs): a ValidationError, or the input with its defaults
CompositionInput(kwargs) ==
    IF Omitted(kwargs) \cap RequiredFields # {}
    THEN [ok |-> FALSE, error |-> "ValidationError", value |-> kwargs]
    ELSE [ok |-> TRUE, error |-> "",
          value |-> [f \in DOMAIN kwargs \ {"omitted"} |->
                        IF f \in Omitted(kwargs) THEN FieldDefault(f) ELSE kwargs[f]]]

\* construction variations: one field left out, or several
ScenariosOmitted ==
    { [input |-> Omit([BaseInput EXCEPT !.product_brand = ProductBrand,
                                        !.brand_strategy = "co_branded",
                                        !.output_format = "JPEG",
                                        !.remove_product_bg = FALSE], fs),
       world |-> BaseWorld]
      : fs \in { {f} : f \in RequiredFields \cup OptionalFields }
               \cup { {"background_path", "output_format"}, OptionalFields,
                      RequiredFields \ {"background_path"} } }

Scenarios ==
    ScenariosCanvas \cup ScenariosProduct \cup ScenariosBrand \cup ScenariosCopy
        \cup ScenariosFetch \cup ScenariosOmitted

-----------------------------------------------------------------------------
(* Compositor.compose: the canvas and the stages *)

\* something drawn on the canvas: what, where, how large, which text, which colour
Mark(kind, position, size, text, fill) ==
    [kind |-> kind, position |-> position, size |-> size, text |-> text, fill |-> fill]

Draw(cv, mark) == [cv EXCEPT !.drawn = Append(@, mark)]

\* what the file or URL named by source holds
Resource(w, source) ==
    IF source \in {UrlProduct, LocalProduct} THEN w.product
    ELSE IF source \in {UrlStoreLogo, LocalStoreLogo} THEN w.store_logo
    ELSE IF source \in {UrlProductLogo, LocalProductLogo} THEN w.product_logo
    ELSE Asset("missing", <<0, 0>>, 0)

\* Image.resize rejects a target without pixels
ImageResizeRaises(new_size) == new_size[1] < 1 \/ new_size[2] < 1

\* a loader that keeps the size the file has
_load_background_as_is(bg_size, target_width, target_height) == bg_size

\* Compositor._load_background: the size of the canvas it returns
_load_background(bg_size, target_width, target_height) ==
    IF bg_size # <<target_width, target_height>>
    THEN <<target_width, target_height>>
    ELSE bg_size

\* Compositor._get_dominant_brand
_get_dominant_brand(inp) ==
    IF inp.brand_strategy = "product_dominant" /\ inp.product_brand.present
    THEN inp.product_brand
    ELSE inp.store_brand

\* the text colour render_cta_button uses when its caller passes none
DefaultCtaTextColor == WHITE

\* render_cta_button: the rounded rectangle filled with accent_color, then the
\* text drawn over it in text_color, inset by the button's padding
render_cta_button(cv, text, zone, accent_color, text_color) ==
    LET cz        == get_bounds(zone, cv.size[1], cv.size[2])
        font_size == (cv.size[2] * 28) \div 1000
        padding_x == (font_size * 12) \div 10
        padding_y == (font_size * 6) \div 10
        button    == Draw(cv, Mark("cta", <<cz[1], cz[2]>>, <<cz[3] - cz[1], cz[4] - cz[2]>>,
                                   text, accent_color))
    IN  Draw(button, Mark("cta_text", <<cz[1] + padding_x, cz[2] + padding_y>>, <<0, 0>>,
                          text, text_color))

\* Compositor._render_all_text
_render_all_text(cv, inp, lay) ==
    LET dominant_brand == _get_dominant_brand(inp)
        primary_color  == dominant_brand.primary
        accent_color   == IF TruthySeq(dominant_brand.accent)
                          THEN dominant_brand.accent ELSE primary_color
        hz  == get_bounds(lay.headline_zone, cv.size[1], cv.size[2])
        bz  == get_bounds(lay.body_zone, cv.size[1], cv.size[2])
        cz  == get_bounds(lay.cta_zone, cv.size[1], cv.size[2])
        c1  == Draw(cv, Mark("headline", <<hz[1], hz[2]>>, <<hz[3] - hz[1], 0>>,
                             inp.ad_copy.headline, primary_color))
        c2  == IF Truthy(inp.ad_copy.subheadline)
               THEN Draw(c1, Mark("subheadline", <<hz[1], hz[2]>>, <<hz[3] - hz[1], 0>>,
                                  inp.ad_copy.subheadline, WHITE))
               ELSE c1
        c3  == IF Truthy(inp.ad_copy.body_copy)
               THEN Draw(c2, Mark("body", <<bz[1], bz[2]>>, <<bz[3] - bz[1], 0>>,
                                  inp.ad_copy.body_copy, WHITE))
               ELSE c2
        c4  == render_cta_button(c3, inp.ad_copy.cta_text, lay.cta_zone, accent_color,
                                 DefaultCtaTextColor)
    IN  IF Truthy(inp.ad_copy.cta_urgency)
        THEN Draw(c4, Mark("urgency", <<cz[1], cz[4] + 10>>, <<0, 0>>,
                           inp.ad_copy.cta_urgency, <<"#","F","F","C","C","0","0">>))
        ELSE c4

\* the collaborators place_product invokes once the image is loaded, in order
PlacementSteps(asset, remove_bg) ==
    <<"load_product_image">>
        \o (IF remove_bg /\ ~has_transparency(asset.min_alpha)
            THEN <<"remove_background">> ELSE << >>)
        \o <<"calculate_product_size", "resize_product_image", "apply_product_treatment",
             "calculate_product_position", "paste">>

\* a placer that leaves the canvas alone instead of raising
place_product_lenient(cv, asset, placement, zone, remove_bg) ==
    [raised |-> FALSE, error |-> "", canvas |-> cv]

\* place_product after load_product_image has produced its outcome
place_product(cv, asset, placement, zone, remove_bg) ==
    IF asset.status # "ok"
    THEN [raised |-> TRUE, error |-> asset.status, canvas |-> cv]
    ELSE
    LET steps       == PlacementSteps(asset, remove_bg)
        removed     == \E k \in 1..Len(steps) : steps[k] = "remove_background"
        target_size == calculate_product_size(cv.size, placement.size)
        resized     == resize_product_image(asset.size, target_size)
        treated     == apply_product_treatment(resized, placement.treatment)
        position    == calculate_product_position(cv.size, treated, placement.position, zone)
    IN  IF resized # asset.size /\ ImageResizeRaises(resized)
        THEN [raised |-> TRUE, error |-> "resize", canvas |-> cv]
        ELSE [raised |-> FALSE, error |-> "",
              canvas |-> Draw(cv, Mark("product", position, treated,
                                       IF removed THEN "background removed" ELSE "as loaded",
                                       <<>>))]

\* Compositor._render_text_logo
_render_text_logo(cv, brand_name, position, max_height) ==
    LET font_size == Min2(IF max_height # 0 THEN max_height ELSE 30, 30)
    IN  Draw(cv, Mark("text_logo", position, <<0, font_size>>, brand_name, WHITE))

\* one call of _place_logo as _render_logos makes it
LogoCall(logo_source, position, max_width, max_height, brand_name) ==
    [logo_source |-> logo_source, position |-> position, max_width |-> max_width,
     max_height |-> max_height, brand_name |-> brand_name]

\* the text-logo fallback of _place_logo
LogoFallback(cv, c) ==
    IF Truthy(c.brand_name)
    THEN _render_text_logo(cv, c.brand_name, c.position, c.max_height)
    ELSE cv

\* a _place_logo without its try/except: a load failure leaves the call
_place_logo_unguarded(cv, c, asset) ==
    IF ~TruthySeq(c.logo_source) \/ IsPlaceholderLogo(c.logo_source)
    THEN [raised |-> FALSE, canvas |-> LogoFallback(cv, c)]
    ELSE IF asset.status # "ok"
    THEN [raised |-> TRUE, canvas |-> cv]
    ELSE [raised |-> FALSE, canvas |-> Draw(cv, Mark("logo", c.position, asset.size, "", <<>>))]

\* Compositor._place_logo, given what the logo source holds
_place_logo(cv, c, asset) ==
    IF ~TruthySeq(c.logo_source)
    THEN [raised |-> FALSE, canvas |-> LogoFallback(cv, c)]
    ELSE IF IsPlaceholderLogo(c.logo_source)
    THEN [raised |-> FALSE, canvas |-> LogoFallback(cv, c)]
    ELSE IF asset.status # "ok"
    THEN [raised |-> FALSE, canvas |-> LogoFallback(cv, c)]
    ELSE LET fitted == IF c.max_width # 0 \/ c.max_height # 0
                       THEN _resize_to_fit(asset.size, c.max_width, c.max_height)
                       ELSE asset.size
         IN  IF fitted # asset.size /\ ImageResizeRaises(fitted)
             THEN [raised |-> FALSE, canvas |-> LogoFallback(cv, c)]
             ELSE [raised |-> FALSE,
                   canvas |-> Draw(cv, Mark("logo", c.position, fitted, "", <<>>))]

\* the _place_logo calls Compositor._render_logos makes, in order
LogoCalls(cv, inp, lay) ==
    LET b  == get_bounds(lay.logo_zone, cv.size[1], cv.size[2])
        x1 == b[1]
        y1 == b[2]
        zone_width  == b[3] - b[1]
        zone_height == b[4] - b[2]
        half_width  == zone_width \div 2
    IN  IF inp.brand_strategy = "store_dominant"
        THEN << LogoCall(inp.store_brand.logo_url, <<x1, y1>>, 0, zone_height,
                         inp.store_brand.brand_name) >>
        ELSE IF inp.brand_strategy = "product_dominant" /\ inp.product_brand.present
        THEN << LogoCall(inp.product_brand.logo_url, <<x1, y1>>, 0, zone_height,
                         inp.product_brand.brand_name) >>
        ELSE IF inp.brand_strategy = "co_branded"
        THEN << LogoCall(inp.store_brand.logo_url, <<x1, y1>>, half_width - 10,
                         zone_height, inp.store_brand.brand_name) >>
             \o (IF inp.product_brand.present
                 THEN << LogoCall(inp.product_brand.logo_url, <<x1 + half_width + 10, y1>>,
                                  half_width - 10, zone_height,
                                  inp.product_brand.brand_name) >>
                 ELSE << >>)
        ELSE << >>

\* the "Available at <store>" caption of the product_dominant branch
LogoCaption(cv, inp) ==
    IF inp.brand_strategy = "product_dominant" /\ inp.product_brand.present
    THEN Draw(cv, Mark("caption", <<10, cv.size[2] - 30>>, <<0, 0>>,
                       inp.store_brand.brand_name, <<"#","C","C","C","C","C","C">>))
    ELSE cv

\* _place_logo suspends on the network only for a real URL
LogoNeedsFetch(c) ==
    /\ TruthySeq(c.logo_source)
    /\ ~IsPlaceholderLogo(c.logo_source)
    /\ IsUrl(c.logo_source)

RECURSIVE RunLogoCalls(_, _, _)
\* _render_logos from its current call on, up to the next network wait
RunLogoCalls(cv, q, w) ==
    IF q = << >> \/ LogoNeedsFetch(Head(q))
    THEN [raised |-> FALSE, canvas |-> cv, queue |-> q]
    ELSE LET r == _place_logo(cv, Head(q), Resource(w, Head(q).logo_source))
         IN  IF r.raised
             THEN [raised |-> TRUE, canvas |-> r.canvas, queue |-> q]
             ELSE RunLogoCalls(r.canvas, Tail(q), w)

\* an export that always writes the same file
_save_image_fixed_path(cv, path, format) ==
    [written |-> TRUE, path |-> "out/ad.png", format |-> format, size |-> cv.size,
     mode |-> IF format = "JPEG" THEN "RGB" ELSE "RGBA"]

\* Compositor._save_image: the file it writes
_save_image(cv, path, format) ==
    [written |-> TRUE, path |-> path, format |-> format, size |-> cv.size,
     mode |-> IF format = "JPEG" THEN "RGB" ELSE "RGBA"]

\* the ImageAsset compose returns
ImageAsset(path, width, height) ==
    [kind |-> "asset", path |-> path, width |-> width, height |-> height]

\* an exception leaving compose
Raised(stage, error) == [kind |-> "error", stage |-> stage, error |-> error]

StageDone(stage, cv) == [stage |-> stage, size |-> cv.size]

\* a pipeline that renders the disclaimer unconditionally
AlwaysDisclaimer(inp) == "disclaimer"

\* where compose goes once the logos are on the canvas
AfterLogos(inp) == IF Truthy(inp.ad_copy.legal_disclaimer) THEN "disclaimer" ELSE "export"

-----------------------------------------------------------------------------
(* Compositor.compose as a state machine: one call on one input *)

Init ==
    /\ call = NoCall
    /\ ret = NotDone
    /\ \E s \in Scenarios : input = s.input /\ world = s.world
    /\ pc = "construct"
    /\ layout = NoLayout
    /\ canvas = NoCanvas
    /\ stages = << >>
    /\ completed = << >>
    /\ queue = << >>
    /\ inflight = {}
    /\ outfile = NoFile
    /\ result = NoResult
    /\ ParIdle
    /\ GraphIdle
    /\ CkptIdle

\* input = CompositionInput(...): compose runs only on a constructed input
ConstructInput ==
    /\ pc = "construct"
    /\ LET r == CompositionInput(input)
       IN  IF r.ok
           THEN /\ input' = r.value
                /\ pc' = "start"
                /\ UNCHANGED result
           ELSE /\ result' = Raised("construct", r.error)
                /\ pc' = "raised"
                /\ UNCHANGED input
    /\ UNCHANGED <<graphVars, ckptVars, tasks, heap, disk, call, ret, world, layout, canvas, stages, completed,
                   queue, inflight, outfile>>

\* layout = get_layout_spec(input.concept.layout_archetype)
ResolveLayout ==
    /\ pc = "start"
    /\ layout' = get_layout_spec(input.concept.layout_archetype)
    /\ stages' = Append(stages, "layout")
    /\ completed' = Append(completed, StageDone("layout", canvas))
    /\ pc' = "background"
    /\ UNCHANGED <<graphVars, ckptVars, tasks, heap, disk, call, ret, input, world, canvas, queue, inflight, outfile, result>>

\* canvas = self._load_background(...)
LoadBackground ==
    /\ pc = "background"
    /\ stages' = Append(stages, "background")
    /\ IF world.background.status = "ok"
       THEN LET cv == [size |-> _load_background(world.background.size,
                                                 input.channel.width, input.channel.height),
                       drawn |-> << >>]
            IN  /\ canvas' = cv
                /\ completed' = Append(completed, StageDone("background", cv))
                /\ pc' = "product"
                /\ UNCHANGED result
       ELSE /\ result' = Raised("background", world.background.status)
            /\ pc' = "raised"
            /\ UNCHANGED <<canvas, completed>>
    /\ UNCHANGED <<graphVars, ckptVars, tasks, heap, disk, call, ret, input, world, layout, queue, inflight, outfile>>

\* place_product from the loaded (or failed) product image on
FinishPlaceProduct(asset) ==
    LET r == place_product(canvas, asset, input.concept.product_placement,
                           layout.product_zone, input.remove_product_bg)
    IN  IF r.raised
        THEN /\ result' = Raised("product", r.error)
             /\ pc' = "raised"
             /\ UNCHANGED <<canvas, completed>>
        ELSE /\ canvas' = r.canvas
             /\ completed' = Append(completed, StageDone("product", r.canvas))
             /\ pc' = "text"
             /\ UNCHANGED result

\* canvas = await place_product(...) with a local product image
PlaceProductLocal ==
    /\ pc = "product"
    /\ ~IsUrl(input.product_image_source)
    /\ stages' = Append(stages, "product")
    /\ FinishPlaceProduct(Resource(world, input.product_image_source))
    /\ UNCHANGED <<graphVars, ckptVars, tasks, heap, disk, call, ret, input, world, layout, queue, inflight, outfile>>

\* a compose that issues the product request and goes on without awaiting it
ProductFetchInBackground ==
    /\ pc = "product"
    /\ IsUrl(input.product_image_source)
    /\ stages' = Append(stages, "product")
    /\ inflight' = inflight \cup {input.product_image_source}
    /\ FinishPlaceProduct(Resource(world, input.product_image_source))
    /\ UNCHANGED <<graphVars, ckptVars, tasks, heap, disk, call, ret, input, world, layout, queue, outfile>>

\* place_product suspends in client.get(source)
StartProductFetch ==
    /\ pc = "product"
    /\ IsUrl(input.product_image_source)
    /\ stages' = Append(stages, "product")
    /\ inflight' = inflight \cup {input.product_image_source}
    /\ pc' = "product_fetch"
    /\ UNCHANGED <<graphVars, ckptVars, tasks, heap, disk, call, ret, input, world, layout, canvas, completed, queue, outfile, result>>

\* the response (or the error) arrives and place_product runs on
FinishProductFetch ==
    /\ pc = "product_fetch"
    /\ input.product_image_source \in inflight
    /\ inflight' = inflight \ {input.product_image_source}
    /\ FinishPlaceProduct(Resource(world, input.product_image_source))
    /\ UNCHANGED <<graphVars, ckptVars, tasks, heap, disk, call, ret, input, world, layout, stages, queue, outfile>>

\* canvas = self._render_all_text(canvas, input, layout)
RenderText ==
    /\ pc = "text"
    /\ stages' = Append(stages, "text")
    /\ canvas' = _render_all_text(canvas, input, layout)
    /\ completed' = Append(completed, StageDone("text", canvas'))
    /\ pc' = "logos"
    /\ UNCHANGED <<graphVars, ckptVars, tasks, heap, disk, call, ret, input, world, layout, queue, inflight, outfile, result>>

\* _render_logos has run up to r, with the fetches in waiting still pending:
\* it raised, it waits for the next logo, or it returned
ContinueLogos(r, waiting) ==
    IF r.raised
    THEN /\ result' = Raised("logos", "logo")
         /\ pc' = "raised"
         /\ canvas' = r.canvas
         /\ queue' = r.queue
         /\ inflight' = waiting
         /\ UNCHANGED completed
    ELSE IF r.queue # << >>
    THEN /\ canvas' = r.canvas
         /\ queue' = r.queue
         /\ inflight' = waiting \cup {Head(r.queue).logo_source}
         /\ pc' = "logo_fetch"
         /\ UNCHANGED <<completed, result>>
    ELSE LET cv == LogoCaption(r.canvas, input)
         IN  /\ canvas' = cv
             /\ queue' = << >>
             /\ inflight' = waiting
             /\ completed' = Append(completed, StageDone("logos", cv))
             /\ pc' = AfterLogos(input)
             /\ UNCHANGED result

\* canvas = await self._render_logos(canvas, input, layout), up to its first wait
RenderLogos ==
    /\ pc = "logos"
    /\ stages' = Append(stages, "logos")
    /\ ContinueLogos(RunLogoCalls(canvas, LogoCalls(canvas, input, layout), world), inflight)
    /\ UNCHANGED <<graphVars, ckptVars, tasks, heap, disk, call, ret, input, world, layout, outfile>>

\* the logo's response (or the error) arrives; _place_logo and _render_logos run on
FinishLogoFetch ==
    /\ pc = "logo_fetch"
    /\ queue # << >>
    /\ Head(queue).logo_source \in inflight
    /\ LET c == Head(queue)
           r == _place_logo(canvas, c, Resource(world, c.logo_source))
       IN  ContinueLogos(IF r.raised
                         THEN [raised |-> TRUE, canvas |-> r.canvas, queue |-> queue]
                         ELSE RunLogoCalls(r.canvas, Tail(queue), world),
                         inflight \ {c.logo_source})
    /\ UNCHANGED <<graphVars, ckptVars, tasks, heap, disk, call, ret, input, world, layout, stages, outfile>>

\* render_disclaimer(canvas, text): bottom centre, small grey text
render_disclaimer(cv, text) ==
    Draw(cv, Mark("disclaimer", <<cv.size[1] \div 2, cv.size[2] - 10>>, <<0, 0>>, text, <<"#","9","9","9","9","9","9">>))

\* if input.ad_copy.legal_disclaimer: canvas = render_disclaimer(...)
RenderDisclaimer ==
    /\ pc = "disclaimer"
    /\ stages' = Append(stages, "disclaimer")
    /\ canvas' = render_disclaimer(canvas, input.ad_copy.legal_disclaimer)
    /\ completed' = Append(completed, StageDone("disclaimer", canvas'))
    /\ pc' = "export"
    /\ UNCHANGED <<graphVars, ckptVars, tasks, heap, disk, call, ret, input, world, layout, queue, inflight, outfile, result>>

\* output_path = self._save_image(...); return ImageAsset(...)
Export ==
    /\ pc = "export"
    /\ stages' = Append(stages, "export")
    /\ outfile' = _save_image(canvas, input.output_path, input.output_format)
    /\ completed' = Append(completed, StageDone("export", canvas))
    /\ result' = ImageAsset(input.output_path, canvas.size[1], canvas.size[2])
    /\ pc' = "done"
    /\ UNCHANGED <<graphVars, ckptVars, tasks, heap, disk, call, ret, input, world, layout, canvas, queue, inflight>>

Next ==
    \/ ConstructInput
    \/ ResolveLayout
    \/ LoadBackground
    \/ PlaceProductLocal
    \/ StartProductFetch
    \/ FinishProductFetch
    \/ RenderText
    \/ RenderLogos
    \/ FinishLogoFetch
    \/ RenderDisclaimer
    \/ Export

Spec == Init /\ [][Next]_vars

-----------------------------------------------------------------------------
(* Claims about Compositor.compose (checked under Spec) *)

Begun(stage) == \E i \in 1..Len(stages) : stages[i] = stage
Completed(stage) == \E i \in 1..Len(completed) : completed[i].stage = stage
ChannelSize == <<input.channel.width, input.channel.height>>
IsPrefix(s, t) == Len(s) <= Len(t) /\ \A i \in 1..Len(s) : s[i] = t[i]
Drawn(kind) == \E i \in 1..Len(canvas.drawn) : canvas.drawn[i].kind = kind

\* C1: once the background stage has produced the canvas, the canvas has exactly
\* the channel's width and height, it still has them after each later stage
\* (product, text, logos, disclaimer, export), the exported file has them, and
\* the returned ImageAsset reports them.
C1_CanvasHasChannelSize ==
    /\ Completed("background") => canvas.size = ChannelSize
    /\ \A i \in 1..Len(completed) :
          completed[i].stage # "layout" => completed[i].size = ChannelSize
    /\ outfile.written => outfile.size = ChannelSize
    /\ result.kind = "asset" =>
          /\ result.width = input.channel.width
          /\ result.height = input.channel.height

\* a finished call whose background file had another size than the channel,
\* with a disclaimer, exported as JPEG
C1_Witness ==
    /\ pc = "done"
    /\ result.kind = "asset"
    /\ world.background.size # ChannelSize
    /\ input.output_format = "JPEG"
    /\ Completed("disclaimer")
    /\ Drawn("product")

\* the order compose runs its stages in for this input
ComposeOrder ==
    <<"layout", "background", "product", "text", "logos">>
        \o (IF Truthy(input.ad_copy.legal_disclaimer) THEN <<"disclaimer">> ELSE << >>)
        \o <<"export">>

\* the order with the background loaded before the layout is resolved
BackgroundFirstOrder ==
    <<"background", "layout", "product", "text", "logos">>
        \o (IF Truthy(input.ad_copy.legal_disclaimer) THEN <<"disclaimer">> ELSE << >>)
        \o <<"export">>

\* every stage but possibly the last one begun has completed, in the same order
OneStageAtATime ==
    /\ Len(completed) <= Len(stages)
    /\ Len(stages) <= Len(completed) + 1
    /\ \A i \in 1..Len(completed) : completed[i].stage = stages[i]

C3_LoadFailureIsFatal ==
    /\ (world.background.status # "ok" /\ Begun("background")) =>
          /\ pc = "raised"
          /\ result = Raised("background", world.background.status)
          /\ stages = <<"layout", "background">>
          /\ ~outfile.written
    /\ (/\ world.background.status = "ok"
        /\ Resource(world, input.product_image_source).status # "ok"
        /\ Begun("product")
        /\ pc # "product_fetch") =>
          /\ pc = "raised"
          /\ result = Raised("product", Resource(world, input.product_image_source).status)
          /\ stages = <<"layout", "background", "product">>
          /\ ~Drawn("product")
          /\ ~outfile.written

\* a call whose product URL could not be fetched has raised
C3_Witness ==
    /\ pc = "raised"
    /\ result.kind = "error"
    /\ result.stage = "product"
    /\ IsUrl(input.product_image_source)
    /\ world.product.status = "missing"

\* whether _place_logo cannot paste the logo of call c
LogoUnavailable(c) ==
    \/ ~TruthySeq(c.logo_source)
    \/ IsPlaceholderLogo(c.logo_source)
    \/ Resource(world, c.logo_source).status # "ok"
    \/ ImageResizeRaises(_resize_to_fit(Resource(world, c.logo_source).size,
                                        c.max_width, c.max_height))

\* whether the brand name of call c is on the canvas as a text logo at c's position
TextLogoDrawn(c) ==
    \E i \in 1..Len(canvas.drawn) :
        /\ canvas.drawn[i].kind = "text_logo"
        /\ canvas.drawn[i].position = c.position
        /\ canvas.drawn[i].text = c.brand_name

\* C4: the logo stage never raises; once it has begun and is not waiting for a
\* logo it has completed and the pipeline goes on; every logo that is absent, a
\* placeholder, missing, unreachable, undecodable or not resizable has its
\* non-empty brand name drawn as a (bold) text logo at the logo's position.
C4_LogoNeverRaises ==
    /\ result.kind = "error" => result.stage # "logos"
    /\ (Begun("logos") /\ pc # "logo_fetch") =>
          /\ Completed("logos")
          /\ pc \in {"disclaimer", "export", "done"}
    /\ Completed("logos") =>
          LET calls == LogoCalls(canvas, input, layout)
          IN  \A i \in 1..Len(calls) :
                  (LogoUnavailable(calls[i]) /\ Truthy(calls[i].brand_name))
                      => TextLogoDrawn(calls[i])

\* a finished co-branded call whose store logo was fetched but is too flat to
\* be resized into its half of the zone, and whose product logo is missing
C4_Witness ==
    /\ pc = "done"
    /\ input.brand_strategy = "co_branded"
    /\ input.product_brand.present
    /\ input.store_brand.logo_url = UrlStoreLogo
    /\ world.store_logo = Asset("ok", <<3000, 2>>, 0)
    /\ world.product_logo.status = "missing"
    /\ Truthy(input.store_brand.brand_name)
    /\ \A i \in 1..2 : TextLogoDrawn(LogoCalls(canvas, input, layout)[i])

-----------------------------------------------------------------------------
(* Compositor.compose as a function of one call's own state *)

\* the state of the call as one value
CallState ==
    [input |-> input, world |-> world, pc |-> pc, layout |-> layout, canvas |-> canvas,
     stages |-> stages, completed |-> completed, queue |-> queue, inflight |-> inflight,
     outfile |-> outfile, result |-> result]

\* a call that has not started: its arguments and what its sources hold
NewCall(kwargs, w) ==
    [input |-> kwargs, world |-> w, pc |-> "construct", layout |-> NoLayout,
     canvas |-> NoCanvas, stages |-> << >>, completed |-> << >>, queue |-> << >>,
     inflight |-> {}, outfile |-> NoFile, result |-> NoResult]

\* an exception leaves the call
Fail(s, stage, error) == [s EXCEPT !.pc = "raised", !.result = Raised(stage, error)]

\* a stage has finished with canvas cv; the call goes on at next
Finish(s, stage, cv, next) ==
    [s EXCEPT !.canvas = cv, !.completed = Append(@, StageDone(stage, cv)), !.pc = next]

\* place_product from the loaded (or failed) product image on
StepProduct(s, asset) ==
    LET r == place_product(s.canvas, asset, s.input.concept.product_placement,
                           s.layout.product_zone, s.input.remove_product_bg)
    IN  IF r.raised THEN Fail(s, "product", r.error)
        ELSE Finish(s, "product", r.canvas, "text")

\* _render_logos has run up to r, with the fetches in waiting still pending
StepLogos(s, r, waiting) ==
    IF r.raised
    THEN [Fail(s, "logos", "logo") EXCEPT !.canvas = r.canvas, !.queue = r.queue,
                                          !.inflight = waiting]
    ELSE IF r.queue # << >>
    THEN [s EXCEPT !.canvas = r.canvas, !.queue = r.queue,
                   !.inflight = waiting \cup {Head(r.queue).logo_source},
                   !.pc = "logo_fetch"]
    ELSE [Finish(s, "logos", LogoCaption(r.canvas, s.input), AfterLogos(s.input))
             EXCEPT !.queue = << >>, !.inflight = waiting]

\* the next state of a call: compose up to its next stage boundary or wait
ComposeStep(s) ==
    LET begun(stage) == [s EXCEPT !.stages = Append(@, stage)]
        src == s.input.product_image_source
    IN  CASE s.pc = "construct" ->
               LET r == CompositionInput(s.input)
               IN  IF r.ok THEN [s EXCEPT !.input = r.value, !.pc = "start"]
                   ELSE Fail(s, "construct", r.error)
          [] s.pc = "start" ->
               [Finish(begun("layout"), "layout", s.canvas, "background")
                   EXCEPT !.layout = get_layout_spec(s.input.concept.layout_archetype)]
          [] s.pc = "background" ->
               IF s.world.background.status = "ok"
               THEN Finish(begun("background"), "background",
                           [size |-> _load_background(s.world.background.size,
                                                      s.input.channel.width,
                                                      s.input.channel.height),
                            drawn |-> << >>],
                           "product")
               ELSE Fail(begun("background"), "background", s.world.background.status)
          [] s.pc = "product" ->
               IF IsUrl(src)
               THEN [begun("product") EXCEPT !.inflight = @ \cup {src},
                                             !.pc = "product_fetch"]
               ELSE StepProduct(begun("product"), Resource(s.world, src))
          [] s.pc = "product_fetch" ->
               StepProduct([s EXCEPT !.inflight = @ \ {src}], Resource(s.world, src))
          [] s.pc = "text" ->
               Finish(begun("text"), "text", _render_all_text(s.canvas, s.input, s.layout),
                      "logos")
          [] s.pc = "logos" ->
               StepLogos(begun("logos"),
                         RunLogoCalls(s.canvas, LogoCalls(s.canvas, s.input, s.layout),
                                      s.world),
                         s.inflight)
          [] s.pc = "logo_fetch" ->
               LET c == Head(s.queue)
                   r == _place_logo(s.canvas, c, Resource(s.world, c.logo_source))
               IN  StepLogos(s,
                             IF r.raised
                             THEN [raised |-> TRUE, canvas |-> r.canvas, queue |-> s.queue]
                             ELSE RunLogoCalls(r.canvas, Tail(s.queue), s.world),
                             s.inflight \ {c.logo_source})
          [] s.pc = "disclaimer" ->
               Finish(begun("disclaimer"), "disclaimer",
                      render_disclaimer(s.canvas, s.input.ad_copy.legal_disclaimer),
                      "export")
          [] s.pc = "export" ->
               [Finish(begun("export"), "export", s.canvas, "done")
                   EXCEPT !.outfile = _save_image(s.canvas, s.input.output_path,
                                                  s.input.output_format),
                          !.result = ImageAsset(s.input.output_path, s.canvas.size[1],
                                                s.canvas.size[2])]
          [] OTHER -> s

\* whether the call has returned or raised
Finished(s) == s.pc \in {"done", "raised"}

RECURSIVE Run(_)
\* the call run to its end without anything else happening
Run(s) == IF Finished(s) THEN s ELSE Run(ComposeStep(s))

\* what compose(kwargs) does when it runs alone in a world w
RunAlone(kwargs, w) == Run(NewCall(kwargs, w))

-----------------------------------------------------------------------------
(* ComposeStep against the actions (checked under Spec) *)

\* Every step the actions of Spec take is the step ComposeStep computes from the
\* call's own state: ComposeStep and the actions are the same machine.
StepIsFunctionOfCallState == [][CallState' = ComposeStep(CallState)]_vars

-----------------------------------------------------------------------------
(* Concurrent compose calls in one process *)
(* Each call keeps its canvas as a reference into the heap of Image objects; *)
(* the files written are shared through the disk.                            *)

\* one Image object shared by every canvas of the process
ReuseImage(h) == 1

\* the identity of a newly created Image object
AllocImage(h) == Len(h) + 1

\* the heap after object ref holds cv
Store(h, ref, cv) == IF ref = Len(h) + 1 THEN Append(h, cv) ELSE [h EXCEPT ![ref] = cv]

\* the call's state with its canvas dereferenced (0: no canvas yet)
View(t) == [t EXCEPT !.canvas = IF t.canvas = 0 THEN NoCanvas ELSE heap[t.canvas]]

\* image.save(output_path): the file at that path is replaced
WriteFile(d, file, pixels) ==
    {f \in d : f.path # file.path}
        \cup {[path |-> file.path, format |-> file.format, size |-> file.size,
               mode |-> file.mode, pixels |-> pixels]}

\* the steps of compose that create a new Image object for the canvas:
\* _load_background (bg.convert) and place_product (canvas.copy())
CreatesCanvas(at) == at \in {"background", "product", "product_fetch"}

\* a product URL that answers with an HTTP error
GoneProduct == <<"h","t","t","p","s",":","/","/","c","d","n","/","g","o","n","e",".","p","n","g">>

ParInputs ==
    { [BaseInput EXCEPT !.product_image_source = UrlProduct,
                        !.ad_copy.legal_disclaimer = "Terms apply"],
      [BaseInput EXCEPT !.brand_strategy = "co_branded", !.product_brand = ProductBrand],
      [BaseInput EXCEPT !.brand_strategy = "product_dominant",
                        !.product_brand = [ProductBrand EXCEPT !.logo_url = LocalProductLogo],
                        !.channel = [width |-> 1200, height |-> 628],
                        !.output_format = "JPEG"],
      [BaseInput EXCEPT !.product_image_source = GoneProduct],
      Omit(BaseInput, {"concept"}) }

ParWorlds ==
    { BaseWorld,
      [BaseWorld EXCEPT !.product = Asset("missing", <<0, 0>>, 0)],
      [BaseWorld EXCEPT !.background = Asset("ok", <<512, 768>>, 255),
                        !.store_logo = Asset("undecodable", <<0, 0>>, 0)] }

OutputPaths == <<"out/a.png", "out/b.png">>

\* two calls, each with its own output path, in one world
InitPar ==
    /\ call = NoCall
    /\ ret = NotDone
    /\ ComposeIdle
    /\ \E a \in ParInputs, b \in ParInputs, w \in ParWorlds :
          tasks = << [NewCall([a EXCEPT !.output_path = OutputPaths[1]], w)
                         EXCEPT !.canvas = 0],
                     [NewCall([b EXCEPT !.output_path = OutputPaths[2]], w)
                         EXCEPT !.canvas = 0] >>
    /\ heap = << >>
    /\ disk = {}
    /\ GraphIdle
    /\ CkptIdle

\* call i runs up to its next stage boundary or wait
TaskStep(i) ==
    \E v \in {View(tasks[i])} :
    \E n \in {ComposeStep(v)} :
    \E ref \in {IF CreatesCanvas(v.pc) /\ n.canvas # v.canvas
                THEN AllocImage(heap) ELSE tasks[i].canvas} :
        /\ ~Finished(v)
        /\ tasks' = [tasks EXCEPT ![i] = [n EXCEPT !.canvas = ref]]
        /\ heap' = IF n.canvas = v.canvas THEN heap ELSE Store(heap, ref, n.canvas)
        /\ disk' = IF n.outfile.written /\ ~v.outfile.written
                   THEN WriteFile(disk, n.outfile, n.canvas.drawn)
                   ELSE disk
        /\ UNCHANGED <<call, ret>>
        /\ UNCHANGED composeVars
        /\ UNCHANGED graphVars
        /\ UNCHANGED ckptVars

NextPar == \E i \in 1..Len(tasks) : TaskStep(i)

SpecPar == InitPar /\ [][NextPar]_vars

-----------------------------------------------------------------------------
(* C11: determinism of compose *)

\* a call's arguments apart from where its file goes
Resolved(t) == [f \in DOMAIN t.input \ {"output_path"} |-> t.input[f]]

\* what a call returned, apart from the path it was told to write
Outcome(t) ==
    IF t.result.kind = "asset"
    THEN <<"asset", t.result.width, t.result.height>>
    ELSE <<"error", t.result.stage, t.result.error>>

\* the file the call wrote, apart from its path (none: the empty set)
FileOf(t) ==
    { [format |-> f.format, size |-> f.size, mode |-> f.mode, pixels |-> f.pixels] :
        f \in {g \in disk : g.path = t.input.output_path} }

SameResolvedInputs ==
    /\ Len(tasks) = 2
    /\ Resolved(tasks[1]) = Resolved(tasks[2])
    /\ tasks[1].world = tasks[2].world

-----------------------------------------------------------------------------
(* C12: independence of concurrent compose calls *)

\* the file a call leaves at its output path when it runs alone
FileAlone(alone) ==
    IF alone.outfile.written
    THEN { [path |-> alone.outfile.path, format |-> alone.outfile.format,
            size |-> alone.outfile.size, mode |-> alone.outfile.mode,
            pixels |-> alone.canvas.drawn] }
    ELSE {}

\* C12: compose calls with different output paths that run concurrently are
\* independent under every interleaving at their fetch suspension points and
\* stage boundaries: at every moment the rest of a call, run from the canvas
\* and locals it has now, ends exactly as the call ends when run alone (same
\* final canvas, same ImageAsset or same exception, same stages), so no step
\* of the other call, its failure included, has changed anything the call
\* reads; and once a call has finished, the file at its output path is the
\* file it writes alone, and a call that raised has left no file there.
C12_Independent ==
    \A i \in 1..Len(tasks) :
        LET alone == RunAlone(tasks[i].input, tasks[i].world)
        IN  /\ Run(View(tasks[i])) = alone
            /\ Finished(tasks[i]) =>
                  {f \in disk : f.path = tasks[i].input.output_path} = FileAlone(alone)

\* one call has raised because its product could not be loaded, the other has
\* returned its ImageAsset and its file is the only one on disk
C12_Witness ==
    /\ Len(tasks) = 2
    /\ tasks[1].result.kind = "error"
    /\ tasks[1].result.stage = "product"
    /\ tasks[2].result.kind = "asset"
    /\ Cardinality(disk) = 1
    /\ View(tasks[2]).canvas.drawn # << >>
-----------------------------------------------------------------------------
(* C13: the fetches of one call are serial (checked under Spec) *)

\* the requests a call can have pending, by what they fetch
LogoFetchPending == pc = "logo_fetch" /\ queue # << >> /\ Head(queue).logo_source \in inflight
StoreLogoCallQueued ==
    \E k \in 1..Len(queue) : queue[k].position = LogoCalls(canvas, input, layout)[1].position

\* C13: within one compose call at most one network fetch is in flight; a logo
\* fetch is issued only after the product stage has completed (its fetch has
\* answered); under co_branded the product logo is requested only when the
\* store logo's _place_logo call has returned; and while a fetch is pending
\* the call sits in the stage that awaits it: no stage begins, none completes
\* and the canvas does not change until that fetch has answered.
C13_SerialFetches ==
    /\ [](/\ Cardinality(inflight) <= 1
          /\ inflight # {} => pc \in {"product_fetch", "logo_fetch"}
          /\ pc = "product_fetch" => inflight = {input.product_image_source}
          /\ pc = "logo_fetch" =>
                /\ LogoFetchPending
                /\ inflight = {Head(queue).logo_source}
                /\ Completed("product")
                /\ stages[Len(stages)] = "logos"
          /\ (LogoFetchPending /\ input.brand_strategy = "co_branded"
                /\ Head(queue).position # LogoCalls(canvas, input, layout)[1].position)
                => ~StoreLogoCallQueued)
    /\ [][inflight # {} =>
            /\ inflight \cap inflight' = {}
            /\ stages' = stages
            /\ IsPrefix(completed, completed')]_vars

\* co_branded with a product fetched from a URL and two logo URLs: the product
\* logo's request is the one pending
C13_Witness ==
    /\ input.present
    /\ input.brand_strategy = "co_branded"
    /\ IsUrl(input.product_image_source)
    /\ pc = "logo_fetch"
    /\ Len(queue) = 1
    /\ Head(queue).logo_source = UrlProductLogo
    /\ inflight = {UrlProductLogo}
    /\ Drawn("logo")
-----------------------------------------------------------------------------
(* C14: validation of CompositionInput (checked under Spec) *)

\* C14: when the arguments of CompositionInput leave out any required field
\* (background_path, product_image_source, ad_copy, concept, store_brand,
\* channel, output_path), construction fails with a ValidationError and the
\* call ends there: no stage begins, no background is loaded, no fetch is
\* issued and no file is written.
C14_ValidationBlocksPipeline ==
    (Omitted(input) \cap RequiredFields # {}) =>
        /\ pc \in {"construct", "raised"}
        /\ pc = "raised" => result = Raised("construct", "ValidationError")
        /\ stages = << >>
        /\ completed = << >>
        /\ layout = NoLayout
        /\ canvas = NoCanvas
        /\ inflight = {}
        /\ outfile = NoFile

\* construction without a channel has failed
C14_Witness ==
    /\ Omitted(input) = {"channel"}
    /\ pc = "raised"
    /\ result = Raised("construct", "ValidationError")
    /\ outfile = NoFile
-----------------------------------------------------------------------------
(* C15: the two marks of the co_branded strategy (checked under Spec) *)

\* the logos and text logos on the canvas
BrandMarks ==
    { canvas.drawn[i] : i \in { k \in 1..Len(canvas.drawn) :
                                  canvas.drawn[k].kind \in {"logo", "text_logo"} } }

\* the logo zone in pixels: <<x1, y1, x2, y2>>
LogoZoneBounds == get_bounds(layout.logo_zone, canvas.size[1], canvas.size[2])

\* the x at which the right half of the logo zone begins
LogoZoneMiddle == LogoZoneBounds[1] + (LogoZoneBounds[3] - LogoZoneBounds[1]) \div 2

\* the gutter _render_logos leaves before the product logo
LogoGutter == 10

\* C15: under co_branded with both brands present (each with a name to fall
\* back on), after the logo stage a store mark (logo or text) starts at the
\* top-left corner of the logo zone and a product mark starts at zone left +
\* half width + gutter, a point of the zone's right half; without a product
\* brand no mark other than the store's is drawn.
C15_CoBrandedMarks ==
    (input.present /\ input.brand_strategy = "co_branded" /\ Completed("logos")
       /\ Truthy(input.store_brand.brand_name)) =>
        IF input.product_brand.present /\ Truthy(input.product_brand.brand_name)
        THEN /\ \E m \in BrandMarks :
                    m.position = <<LogoZoneBounds[1], LogoZoneBounds[2]>>
             /\ \E m \in BrandMarks :
                    /\ m.position = <<LogoZoneMiddle + LogoGutter, LogoZoneBounds[2]>>
                    /\ LogoZoneMiddle <= m.position[1]
                    /\ m.position[1] < LogoZoneBounds[3]
        ELSE \A m \in BrandMarks :
                    m.position = <<LogoZoneBounds[1], LogoZoneBounds[2]>>

\* what the code guarantees: each brand whose logo loads or whose name is not
\* empty leaves exactly one mark, the store's at the zone's top-left corner, the
\* product's at zone left + half width + gutter (inside the zone only when the
\* zone is more than twice the gutter wide); nothing else is drawn as a logo
C15_MarksAsCoded ==
    (input.present /\ input.brand_strategy = "co_branded" /\ Completed("logos")) =>
        /\ \A m \in BrandMarks :
              \/ m.position = <<LogoZoneBounds[1], LogoZoneBounds[2]>>
              \/ /\ input.product_brand.present
                 /\ m.position = <<LogoZoneMiddle + LogoGutter, LogoZoneBounds[2]>>
        /\ Truthy(input.store_brand.brand_name) =>
              \E m \in BrandMarks : m.position = <<LogoZoneBounds[1], LogoZoneBounds[2]>>
        /\ (input.product_brand.present /\ Truthy(input.product_brand.brand_name)) =>
              \E m \in BrandMarks :
                  m.position = <<LogoZoneMiddle + LogoGutter, LogoZoneBounds[2]>>
        /\ (LogoZoneBounds[3] - LogoZoneBounds[1] > 2 * LogoGutter + 1) =>
              LogoZoneMiddle + LogoGutter < LogoZoneBounds[3]
-----------------------------------------------------------------------------
(* C16: when the background of the product is removed (checked under Spec) *)

\* the image the product source holds
ProductAsset == Resource(world, input.product_image_source)

\* how often place_product invoked remove_background
RemovalCount ==
    LET steps == PlacementSteps(ProductAsset, input.remove_product_bg)
    IN  Cardinality({k \in 1..Len(steps) : steps[k] = "remove_background"})

-----------------------------------------------------------------------------
(* C17: wrap_text (checked under SpecFn) *)

RECURSIVE WordsOfLines(_)
\* the words of the lines, in order
WordsOfLines(lines) ==
    IF lines = << >> THEN << >> ELSE str_split(Head(lines)) \o WordsOfLines(Tail(lines))

\* C17: wrap_text breaks greedily: the lines hold the words of the text in
\* order, each line is a single-space join of its words, a line is closed only
\* when the next word would make it wider than max_width, every line is
\* non-empty, every line of two or more words is at most max_width wide, a line
\* wider than max_width is a single word, and an empty text gives no lines.
C17_GreedyWrap ==
    Applied("wrap_text") =>
        LET lines == ret.val
            W(l)  == LineWidth(call.font, l)
        IN  /\ call.text = << >> => lines = << >>
            /\ WordsOfLines(lines) = str_split(call.text)
            /\ \A i \in 1..Len(lines) :
                  /\ lines[i] # << >>
                  /\ lines[i] = str_join(str_split(lines[i]))
                  /\ Len(str_split(lines[i])) >= 2 => W(lines[i]) <= call.max_width
                  /\ W(lines[i]) > call.max_width => Len(str_split(lines[i])) = 1
                  /\ i < Len(lines) =>
                        W(lines[i] \o <<" ">> \o Head(str_split(lines[i + 1])))
                            > call.max_width

\* a text wrapped into a line of two words and a line that is one word wider
\* than max_width
C17_Witness ==
    /\ Applied("wrap_text")
    /\ Len(ret.val) = 2
    /\ Len(str_split(ret.val[1])) = 2
    /\ LineWidth(call.font, ret.val[2]) > call.max_width
-----------------------------------------------------------------------------
(* C18: the registry of archetypes (checked under SpecFn) *)

\* the zones a LayoutSpec has no default for
RequiredZones == {"product_zone", "headline_zone", "body_zone", "cta_zone", "logo_zone"}

\* a spec with its five zones, each a proper rectangle within the unit square
WellFormedSpec(spec) ==
    /\ RequiredZones \subseteq DOMAIN spec
    /\ \A z \in RequiredZones : ValidZone(spec[z])

\* C18: the registry holds at least four archetypes, the default "Minimal
\* Product Focus" among them; every archetype defines the product, headline,
\* body, CTA and logo zones, each with 0 <= x_start < x_end <= 1 and
\* 0 <= y_start < y_end <= 1; each key is the name of its spec; so whatever
\* get_layout_spec returns is such a spec, stored under its own name.
C18_RegistryWellFormed ==
    /\ Len(ArchetypeNames) >= 4
    /\ DEFAULT_LAYOUT = <<"M","i","n","i","m","a","l"," ","P","r","o","d","u","c","t"," ","F","o","c","u","s">>
    /\ IsArchetype(DEFAULT_LAYOUT)
    /\ \A i \in 1..Len(ArchetypeNames) :
          /\ LAYOUT_ARCHETYPES(ArchetypeNames[i]).name = ArchetypeNames[i]
          /\ WellFormedSpec(LAYOUT_ARCHETYPES(ArchetypeNames[i]))
          /\ \A j \in 1..Len(ArchetypeNames) : ArchetypeNames[i] = ArchetypeNames[j] => i = j
    /\ Applied("get_layout_spec") =>
          /\ WellFormedSpec(ret.val)
          /\ IsArchetype(ret.val.name)
          /\ LAYOUT_ARCHETYPES(ret.val.name) = ret.val

\* a lookup by an unknown name has returned the default archetype with its
\* five zones
C18_Witness ==
    /\ Applied("get_layout_spec")
    /\ ~IsArchetype(call.archetype)
    /\ ret.val.name = DEFAULT_LAYOUT
    /\ WellFormedSpec(ret.val)
-----------------------------------------------------------------------------
(* C19: apply_drop_shadow (checked under SpecFn) *)

\* C19: apply_drop_shadow returns an image of size (w + 2e, h + 2e) with
\* e = 2 * blur_radius + max(|offset_x|, |offset_y|) and the original pasted at
\* (e, e); with the default offset and blur radius, and with those of the
\* subtle treatment apply_product_treatment falls back to, the result is
\* strictly larger than the input in width and in height (by 76 and by 50).
C19_DropShadowSize ==
    /\ Applied("apply_drop_shadow") =>
          LET e == 2 * call.blur_radius + Max2(Abs(call.offset[1]), Abs(call.offset[2]))
              defaults == call.offset = <<8, 8>> /\ call.blur_radius = 15
              subtle   == call.offset = <<5, 5>> /\ call.blur_radius = 10
          IN  /\ ret.val.size = <<call.image[1] + 2 * e, call.image[2] + 2 * e>>
              /\ ret.val.image_at = <<e, e>>
              /\ (defaults \/ subtle) =>
                    /\ ret.val.size[1] > call.image[1]
                    /\ ret.val.size[2] > call.image[2]
              /\ defaults => e = 38
              /\ subtle => e = 25
    /\ Applied("apply_product_treatment") =>
          /\ TreatmentKind(call.treatment) = "shadow" =>
                ret.val = <<call.image[1] + 76, call.image[2] + 76>>
          /\ TreatmentKind(call.treatment) = "subtle" =>
                ret.val = <<call.image[1] + 50, call.image[2] + 50>>

\* the default shadow applied to a 1x1 image
C19_Witness ==
    /\ Applied("apply_drop_shadow")
    /\ call.image = <<1, 1>>
    /\ call.offset = <<8, 8>>
    /\ call.blur_radius = 15
    /\ ret.val.size = <<77, 77>>
    /\ ret.val.image_at = <<38, 38>>
-----------------------------------------------------------------------------
(* C20: corner directives of calculate_product_position (checked under SpecFn) *)

\* the directive names a corner: bottom or top together with left or right
IsCornerDirective(position_directive) ==
    LET position == NormalizePosition(position_directive)
    IN  /\ Contains(position, kwBottom) \/ Contains(position, kwTop)
        /\ Contains(position, kwLeft) \/ Contains(position, kwRight)
        /\ ~Contains(position, kwCenter)

\* the directive contains none of the keywords
IsUnknownDirective(position_directive) ==
    LET position == NormalizePosition(position_directive)
    IN  \A kw \in {kwCenter, kwLeft, kwRight, kwBottom, kwTop} : ~Contains(position, kw)

\* C20: for a corner directive the position before the clamp has x inset 10% of
\* the zone width from the named side edge and y inset 10% of the zone height
\* from the named top or bottom edge; a directive without any keyword gives the
\* centre of the zone.
C20_CornerPlacement ==
    Applied("calculate_product_position") =>
        LET raw      == RawProductPosition(call.canvas_size, call.product_size,
                                           call.position_directive, call.zone)
            position == NormalizePosition(call.position_directive)
            b        == get_bounds(call.zone, call.canvas_size[1], call.canvas_size[2])
            zone_w   == b[3] - b[1]
            zone_h   == b[4] - b[2]
            inset_x  == TruncMulDiv(zone_w, 10, 100)
            inset_y  == TruncMulDiv(zone_h, 10, 100)
        IN  /\ IsCornerDirective(call.position_directive) =>
                  /\ raw.x = IF Contains(position, kwLeft)
                             THEN b[1] + inset_x
                             ELSE b[3] - call.product_size[1] - inset_x
                  /\ raw.y = IF Contains(position, kwTop)
                             THEN b[2] + inset_y
                             ELSE b[4] - call.product_size[2] - inset_y
            /\ IsUnknownDirective(call.position_directive) =>
                  /\ raw.x = b[1] + (zone_w \div 2) - (call.product_size[1] \div 2)
                  /\ raw.y = b[2] + (zone_h \div 2) - (call.product_size[2] \div 2)

\* what the code does with a corner directive: the left or right branch is
\* taken before bottom or top is looked at, so y is the vertical centre of the
\* zone, and the left inset is 15% of the zone width
C20_CornerAsCoded ==
    Applied("calculate_product_position") =>
        LET raw      == RawProductPosition(call.canvas_size, call.product_size,
                                           call.position_directive, call.zone)
            position == NormalizePosition(call.position_directive)
            b        == get_bounds(call.zone, call.canvas_size[1], call.canvas_size[2])
            zone_w   == b[3] - b[1]
            zone_h   == b[4] - b[2]
        IN  /\ IsCornerDirective(call.position_directive) =>
                  /\ raw.branch \in {"left", "right"}
                  /\ raw.x = IF Contains(position, kwLeft)
                             THEN b[1] + TruncMulDiv(zone_w, 15, 100)
                             ELSE b[3] - call.product_size[1] - TruncMulDiv(zone_w, 10, 100)
                  /\ raw.y = b[2] + (zone_h \div 2) - (call.product_size[2] \div 2)
            /\ IsUnknownDirective(call.position_directive) =>
                  /\ raw.x = b[1] + (zone_w \div 2) - (call.product_size[1] \div 2)
                  /\ raw.y = b[2] + (zone_h \div 2) - (call.product_size[2] \div 2)
-----------------------------------------------------------------------------
(* C21: apply_product_treatment (checked under SpecFn) *)

\* the group of keywords a treatment directive matches, without regard to case
MatchesShadowGroup(treatment) ==
    Contains(Lower(treatment), kwShadow) \/ Contains(Lower(treatment), kwFloating)
MatchesReflectionGroup(treatment) ==
    Contains(Lower(treatment), kwReflection) \/ Contains(Lower(treatment), kwSurface)

\* C21: one treatment is applied, chosen by case-insensitive substring match:
\* "shadow" or "floating" gives the drop shadow of offset (8, 8) and blur 15;
\* otherwise "reflection" or "surface" gives an image of the source width and
\* of height floor(1.4 * source height); otherwise the subtle shadow of offset
\* (5, 5) and blur 10; a directive with keywords of both groups gets the drop
\* shadow.
C21_Treatment ==
    Applied("apply_product_treatment") =>
        ret.val =
            IF MatchesShadowGroup(call.treatment)
            THEN apply_drop_shadow(call.image, <<8, 8>>, 15)
            ELSE IF MatchesReflectionGroup(call.treatment)
            THEN <<call.image[1], (14 * call.image[2]) \div 10>>
            ELSE apply_drop_shadow(call.image, <<5, 5>>, 10)

\* what the code computes: the same choice of treatment, with the reflection's
\* height the truncated binary64 product image.height * 1.4, which is the exact
\* floor or one less
C21_TreatmentAsCoded ==
    Applied("apply_product_treatment") =>
        IF MatchesShadowGroup(call.treatment)
        THEN ret.val = apply_drop_shadow(call.image, <<8, 8>>, 15)
        ELSE IF MatchesReflectionGroup(call.treatment)
        THEN /\ ret.val[1] = call.image[1]
             /\ ret.val[2] \in {(14 * call.image[2]) \div 10, (14 * call.image[2]) \div 10 - 1}
        ELSE ret.val = apply_drop_shadow(call.image, <<5, 5>>, 10)

\* ---------------------------------------------------------------------------
\* CTA button colours

CtaFill == IF TruthySeq(_get_dominant_brand(input).accent)
           THEN _get_dominant_brand(input).accent
           ELSE _get_dominant_brand(input).primary

MarksOf(kind) == { i \in 1..Len(canvas.drawn) : canvas.drawn[i].kind = kind }

\* C22: once the text stage has run, the CTA button is filled with the dominant
\* brand's accent colour (its primary colour when it has no accent), and the CTA
\* text is drawn in the colour contrasting with that fill: black when the fill's
\* luminance is above 0.5, white otherwise.
C22_CtaContrast ==
    Completed("text") =>
        /\ \A i \in MarksOf("cta") : canvas.drawn[i].fill = CtaFill
        /\ \A i \in MarksOf("cta_text") :
               canvas.drawn[i].fill = get_contrasting_text_color(CtaFill)

\* what the code does: the fill is as stated, and the text is white on every fill
C22_CtaAsCoded ==
    Completed("text") =>
        /\ MarksOf("cta") # {} /\ MarksOf("cta_text") # {}
        /\ \A i \in MarksOf("cta") : canvas.drawn[i].fill = CtaFill
        /\ \A i \in MarksOf("cta_text") : canvas.drawn[i].fill = DefaultCtaTextColor

\* ---------------------------------------------------------------------------
\* the store logo under store_dominant

\* the image marks the logo stage pasted (successfully loaded logos only)
LogoImages ==
    { canvas.drawn[i] : i \in { k \in 1..Len(canvas.drawn) : canvas.drawn[k].kind = "logo" } }

StoreLogoPasted ==
    /\ input.present /\ input.brand_strategy = "store_dominant"
    /\ Completed("logos") /\ LogoImages # {}

\* size is orig scaled by one factor, up to the truncation of each dimension
Proportional(size, orig) ==
    \/ size = orig
    \/ /\ (size[1] + 1) * orig[2] > size[2] * orig[1]
       /\ (size[2] + 1) * orig[1] > size[1] * orig[2]

\* C23: under store_dominant a loaded store logo is pasted at the top-left pixel
\* of the logo zone and lies inside the zone: its width is at most the zone's
\* pixel width and its height at most the zone's pixel height, it keeps the
\* original's proportions and is never larger than the original.
C23_StoreLogoInsideZone ==
    StoreLogoPasted =>
        \A m \in LogoImages :
            /\ m.position = <<LogoZoneBounds[1], LogoZoneBounds[2]>>
            /\ m.size[1] <= LogoZoneBounds[3] - LogoZoneBounds[1]
            /\ m.size[2] <= LogoZoneBounds[4] - LogoZoneBounds[2]
            /\ Proportional(m.size, world.store_logo.size)
            /\ m.size[1] <= world.store_logo.size[1]
            /\ m.size[2] <= world.store_logo.size[2]

\* what the code does: the fit is by the zone's height alone
C23_StoreLogoAsCoded ==
    StoreLogoPasted =>
        /\ Cardinality(LogoImages) = 1
        /\ \A m \in LogoImages :
            /\ m.position = <<LogoZoneBounds[1], LogoZoneBounds[2]>>
            /\ m.size[2] <= LogoZoneBounds[4] - LogoZoneBounds[2]
            /\ Proportional(m.size, world.store_logo.size)
            /\ m.size[1] <= world.store_logo.size[1]
            /\ m.size[2] <= world.store_logo.size[2]
            /\ m.size = _resize_to_fit(world.store_logo.size, 0,
                                       LogoZoneBounds[4] - LogoZoneBounds[2])

-----------------------------------------------------------------------------
(* The LangGraph workflow: segmentation, fan-out per ICP, process_icp, reducers *)

\* at most this many ICPs come out of segmentation
MaxIcps == 3

\* Python's None where a string is expected, where a dict is, where a list is
PyNone == "<None>"
NoneDict == [None |-> TRUE]
NoneList == << [None |-> TRUE] >>

EmptyDict == [k \in {} |-> TRUE]
DictOf(k, v) == [x \in {k} |-> v]

\* a reducer that keeps only the newest update
merge_dicts_latest(a, b) == b

\* state.merge_dicts
merge_dicts(a, b) ==
    IF a = NoneDict THEN (IF b = NoneDict THEN EmptyDict ELSE b)
    ELSE IF b = NoneDict THEN a
    ELSE [k \in DOMAIN a \cup DOMAIN b |-> IF k \in DOMAIN b THEN b[k] ELSE a[k]]

\* state.merge_lists
merge_lists(a, b) ==
    IF a = NoneList THEN (IF b = NoneList THEN << >> ELSE b)
    ELSE IF b = NoneList THEN a
    ELSE a \o b

\* the GraphState fields with the merge_dicts reducer, and the one with merge_lists
DictFields == {"strategies", "concepts", "copy", "scenes", "final_ads"}
ListFields == {"errors"}

\* models.ErrorLog (the timestamp is left out)
ErrorLog(agent_name, icp_id, error_message) ==
    [agent_name |-> agent_name, icp_id |-> icp_id, error_message |-> error_message]

\* state.create_graph_state: the inputs the graph reads, empty outputs
create_graph_state(has_images) ==
    [present |-> TRUE, phase |-> "created", product_images |-> has_images,
     icps |-> << >>, strategies |-> EmptyDict, concepts |-> EmptyDict,
     copy |-> EmptyDict, scenes |-> EmptyDict, final_ads |-> EmptyDict,
     errors |-> << >>, current_icp_id |-> PyNone]

IcpIds == <<"icp_1", "icp_2", "icp_3", "icp_4">>
IcpLists == { SubSeq(IcpIds, 1, n) : n \in 0..MaxIcps }

\* the current_icp_id of a process_icp_node call made on a state no router built
StrayIcpIds == {PyNone, "", "icp_9"}

\* the five stages of process_icp_node and the GraphState field each one fills
StageOrder == <<"strategy", "concept", "copy", "design", "composition">>
StageField == [strategy |-> "strategies", concept |-> "concepts", copy |-> "copy",
               design |-> "scenes", composition |-> "final_ads"]

\* what an agent returns for an ICP
AgentOutput(stage, icp_id) == [kind |-> stage, icp_id |-> icp_id]

\* what calling the async Compositor.compose without awaiting it returns
Coroutine == [kind |-> "coroutine", awaited |-> FALSE]

\* a Send("process_icp", {**state, "current_icp_id": id}) picked up by the node
NewBranch(state, id) ==
    [state |-> [state EXCEPT !.current_icp_id = id],
     pc |-> "enter", results |-> EmptyDict, errors |-> << >>,
     invoked |-> << >>, returned |-> FALSE, raised |-> FALSE, merged |-> FALSE]

\* return results
Return(b) == [b EXCEPT !.pc = "returned", !.returned = TRUE]

\* results[field] = value
SetResult(results, field, value) ==
    [k \in DOMAIN results \cup {field} |-> IF k = field THEN value ELSE results[k]]

\* an except block that logs the failure and goes on to the next stage
OnStageFailure_continue(b, stage, message, next) ==
    [b EXCEPT !.errors = Append(@, ErrorLog(stage, b.state.current_icp_id, message)),
              !.pc = next]

\* the except block of a stage: errors.append(ErrorLog(...)); results["errors"] =
\* errors; return results
OnStageFailure(b, stage, message, next) ==
    LET errors == Append(b.errors, ErrorLog(stage, b.state.current_icp_id, message))
    IN  Return([b EXCEPT !.errors = errors,
                         !.results = SetResult(@, "errors", errors)])

\* process_icp_node up to the first stage: the id and the ICP are looked up
EnterNode(b) ==
    LET icp_id == b.state.current_icp_id
        found  == \E i \in 1..Len(b.state.icps) : b.state.icps[i] = icp_id
    IN  IF icp_id \in {PyNone, ""}
        THEN Return([b EXCEPT !.results = DictOf("errors",
                        << ErrorLog("process_icp", PyNone, "No ICP ID provided") >>)])
        ELSE IF ~found
        THEN Return([b EXCEPT !.results = DictOf("errors",
                        << ErrorLog("process_icp", icp_id, "ICP not found") >>)])
        ELSE [b EXCEPT !.pc = "strategy"]

\* one of the four agent stages: the agent returns (ok) or raises
AgentStage(b, stage, next, ok) ==
    LET icp_id == b.state.current_icp_id
        called == [b EXCEPT !.invoked = Append(@, stage)]
    IN  IF ok
        THEN [called EXCEPT !.results = SetResult(@, StageField[stage],
                                            DictOf(icp_id, AgentOutput(stage, icp_id))),
                            !.pc = next]
        ELSE OnStageFailure(called, stage, "agent failed", next)

\* graph._run_composition: raises without a product image, and otherwise returns
\* what compositor.compose(composition_input) returns, which is not awaited
_run_composition(state) ==
    IF ~state.product_images
    THEN [raised |-> TRUE, error |-> "No product images available for composition"]
    ELSE [raised |-> FALSE, value |-> Coroutine]

\* stage 5 of process_icp_node: the result is stored, then its path is logged
CompositionStage(b) ==
    LET icp_id == b.state.current_icp_id
        called == [b EXCEPT !.invoked = Append(@, "composition")]
        r      == _run_composition(b.state)
    IN  IF r.raised
        THEN OnStageFailure(called, "composition", r.error, "finish")
        ELSE LET stored == [called EXCEPT !.results =
                               SetResult(@, "final_ads", DictOf(icp_id, r.value))]
             IN  IF "path" \in DOMAIN r.value
                 THEN [stored EXCEPT !.pc = "finish"]
                 ELSE OnStageFailure(stored, "composition",
                                     "'coroutine' object has no attribute 'path'", "finish")

\* the end of process_icp_node: if errors: results["errors"] = errors; return results
FinishNode(b) ==
    Return(IF b.errors # << >>
           THEN [b EXCEPT !.results = SetResult(@, "errors", b.errors)]
           ELSE b)

\* the step of a branch at its position
BranchStep(b, ok) ==
    IF b.pc = "enter" THEN EnterNode(b)
    ELSE IF b.pc = "strategy" THEN AgentStage(b, "strategy", "concept", ok)
    ELSE IF b.pc = "concept" THEN AgentStage(b, "concept", "copy", ok)
    ELSE IF b.pc = "copy" THEN AgentStage(b, "copy", "design", ok)
    ELSE IF b.pc = "design" THEN AgentStage(b, "design", "composition", ok)
    ELSE IF b.pc = "composition" THEN CompositionStage(b)
    ELSE IF b.pc = "finish" THEN FinishNode(b)
    ELSE b

\* the update of a finished branch applied to the state, field by field, each
\* with the reducer GraphState annotates it with
ApplyUpdate(state, update) ==
    [f \in DOMAIN state |->
        IF f \in DOMAIN update /\ f \in DictFields THEN merge_dicts(state[f], update[f])
        ELSE IF f \in DOMAIN update /\ f \in ListFields THEN merge_lists(state[f], update[f])
        ELSE state[f]]

\* graph.route_to_icps: one Send per ICP
route_to_icps(state) ==
    [i \in 1..Len(state.icps) |-> NewBranch(state, state.icps[i])]

\* graph.segmentation_node: the agent's ICPs, or one segmentation ErrorLog
Segmentation ==
    /\ gstate.present /\ gstate.phase = "created"
    /\ \/ \E icps \in IcpLists : gstate' = [gstate EXCEPT !.icps = icps, !.phase = "segmented"]
       \/ gstate' = [gstate EXCEPT
                        !.errors = merge_lists(@, << ErrorLog("segmentation", PyNone,
                                                               "agent failed") >>),
                        !.phase = "segmented"]
    /\ UNCHANGED branches

\* the conditional edge after segmentation
RouteToIcps ==
    /\ gstate.present /\ gstate.phase = "segmented"
    /\ branches' = route_to_icps(gstate)
    /\ gstate' = [gstate EXCEPT !.phase = "fanned"]

\* process_icp_node called on a state whose current_icp_id no router set
DirectCall ==
    /\ gstate.present /\ gstate.phase = "segmented"
    /\ \E id \in StrayIcpIds : branches' = << NewBranch(gstate, id) >>
    /\ gstate' = [gstate EXCEPT !.phase = "fanned"]

\* one step of process_icp_node in branch i
ProcessIcp(i) ==
    /\ ~branches[i].returned
    /\ \E ok \in BOOLEAN : branches' = [branches EXCEPT ![i] = BranchStep(@, ok)]
    /\ UNCHANGED gstate

\* the update a branch returned is merged into the state
MergeBranch(i) ==
    /\ branches[i].returned /\ ~branches[i].merged
    /\ gstate' = ApplyUpdate(gstate, branches[i].results)
    /\ branches' = [branches EXCEPT ![i].merged = TRUE]

InitGraph ==
    /\ call = NoCall
    /\ ret = NotDone
    /\ ComposeIdle
    /\ ParIdle
    /\ CkptIdle
    /\ \E has_images \in BOOLEAN : gstate = create_graph_state(has_images)
    /\ branches = << >>

NextGraph ==
    /\ \/ Segmentation
       \/ RouteToIcps
       \/ DirectCall
       \/ \E i \in 1..Len(branches) : ProcessIcp(i)
       \/ \E i \in 1..Len(branches) : MergeBranch(i)
    /\ UNCHANGED <<call, ret>>
    /\ UNCHANGED composeVars
    /\ UNCHANGED parVars
    /\ UNCHANGED ckptVars

SpecGraph == InitGraph /\ [][NextGraph]_vars

-----------------------------------------------------------------------------
(* C24: the stages of process_icp_node *)

BranchIds == 1..Len(branches)

\* the branch names an ICP of its state
NamesIcp(b) ==
    /\ b.state.current_icp_id \notin {PyNone, ""}
    /\ \E i \in 1..Len(b.state.icps) : b.state.icps[i] = b.state.current_icp_id

\* the stages invoked before the last one invoked
EarlierStages(b) == { b.invoked[k] : k \in 1..(Len(b.invoked) - 1) }

FailedAtStage(b) == b.returned /\ b.invoked # << >> /\ "errors" \in DOMAIN b.results

C24_Order(b) ==
    /\ IsPrefix(b.invoked, StageOrder)
    /\ ~b.raised
    \* a stage is only ever started with every earlier stage's output in hand
    /\ \A s \in EarlierStages(b) : StageField[s] \in DOMAIN b.results
    \* and nothing has failed while the node is still running
    /\ ~b.returned => b.errors = << >> /\ "errors" \notin DOMAIN b.results
    /\ FailedAtStage(b) =>
          /\ Len(b.results["errors"]) = 1
          /\ b.results["errors"][1].agent_name = b.invoked[Len(b.invoked)]
          /\ b.results["errors"][1].icp_id = b.state.current_icp_id
    /\ (b.returned /\ "errors" \notin DOMAIN b.results) => b.invoked = StageOrder
    /\ (~NamesIcp(b) /\ b.pc # "enter") =>
          /\ b.returned /\ b.invoked = << >>
          /\ DOMAIN b.results = {"errors"}
          /\ Len(b.results["errors"]) = 1
          /\ b.results["errors"][1].agent_name = "process_icp"

\* C24: in every process_icp_node call the stages invoked so far are a prefix of
\* Strategy, Concept, Copy, Design, Composition, each invoked with the outputs of
\* all earlier ones stored and no error recorded; a call that returns after a
\* failing stage carries exactly one ErrorLog, naming the last stage invoked and
\* the ICP id, and does not raise; a call whose current_icp_id is missing or
\* names no ICP returns one process_icp ErrorLog and invokes no stage; and once
\* a call has returned it invokes nothing more.
C24_StagePipeline ==
    /\ [](\A i \in BranchIds : C24_Order(branches[i]))
    /\ [][\A i \in BranchIds :
             (branches[i].returned /\ i \in 1..Len(branches')) =>
                 /\ branches'[i].invoked = branches[i].invoked
                 /\ branches'[i].results = branches[i].results]_vars

\* a call that failed in Copy and returned the strategy, the concept and the
\* error, while another branch is still on its way
C24_Witness ==
    \E i \in BranchIds :
        /\ FailedAtStage(branches[i])
        /\ branches[i].invoked = <<"strategy", "concept", "copy">>
        /\ DOMAIN branches[i].results = {"strategies", "concepts", "errors"}
        /\ \E j \in BranchIds : j # i /\ branches[j].pc = "design"

\* a call given a current_icp_id that names no ICP has returned its error
C24_StrayIdReturned ==
    \E i \in BranchIds : ~NamesIcp(branches[i]) /\ branches[i].returned

-----------------------------------------------------------------------------
(* C25: merging the branches' updates *)

Merged == { i \in BranchIds : branches[i].merged }

\* the branches whose update carries the field
Carrying(f) == { i \in Merged : f \in DOMAIN branches[i].results }

\* how often e occurs in the list
Occurrences(list, e) == Cardinality({ k \in 1..Len(list) : list[k] = e })

\* the ErrorLogs any branch returned
BranchErrors ==
    UNION { { branches[i].results["errors"][k] :
                k \in 1..Len(branches[i].results["errors"]) } : i \in Carrying("errors") }

\* C25: with one branch per ICP, whatever the order in which the branches have
\* completed and been merged so far, each per-ICP dictionary of the state holds
\* exactly the entries of the merged branches, each ICP's entry being the one its
\* own branch returned (a branch that failed early contributes no entry and
\* touches no one else's), and the errors list holds every merged branch's
\* errors exactly once.
C25_MergeIsOrderFree ==
    (gstate.present /\ gstate.phase = "fanned") =>
        /\ \A f \in DictFields :
              /\ DOMAIN gstate[f] = UNION { DOMAIN branches[i].results[f] : i \in Carrying(f) }
              /\ \A i \in Carrying(f) :
                    /\ DOMAIN branches[i].results[f] = {branches[i].state.current_icp_id}
                    /\ \A k \in DOMAIN branches[i].results[f] :
                          gstate[f][k] = branches[i].results[f][k]
        /\ \A e \in BranchErrors :
              Occurrences(gstate.errors, e) =
                  Cardinality({ i \in Carrying("errors") :
                                  Occurrences(branches[i].results["errors"], e) > 0 })
        /\ \A k \in 1..Len(gstate.errors) :
              gstate.errors[k] \in BranchErrors \/ gstate.errors[k].agent_name = "segmentation"

\* three branches, the third and the second merged before the first; the second
\* failed in Strategy, the others went through to the composition stage
C25_Witness ==
    /\ Len(branches) = 3
    /\ branches[3].merged /\ branches[2].merged /\ ~branches[1].merged
    /\ branches[1].returned
    /\ DOMAIN branches[2].results = {"errors"}
    /\ "final_ads" \in DOMAIN branches[1].results
    /\ "icp_3" \in DOMAIN gstate.final_ads /\ "icp_2" \notin DOMAIN gstate.strategies
    /\ Len(gstate.errors) = 2

-----------------------------------------------------------------------------
(* C26: the final ad of an ICP *)

\* the four agents succeeded for the branch and there is a product image to compose
ReadyToCompose(b) ==
    /\ {"strategies", "concepts", "copy", "scenes"} \subseteq DOMAIN b.results
    /\ b.state.product_images

IsImageAsset(v) == {"path", "width", "height"} \subseteq DOMAIN v

\* C26: a process_icp_node call whose Strategy, Concept, Copy and Design stages
\* succeeded, with the compositor able to compose, returns an update without an
\* errors entry whose final_ads[icp_id] is a completed ImageAsset (path, width,
\* height), next to the ICP's strategy, concept, copy and scene.
C26_FinalAdIsAsset ==
    \A i \in BranchIds :
        (ReadyToCompose(branches[i]) /\ branches[i].returned) =>
            /\ "errors" \notin DOMAIN branches[i].results
            /\ DOMAIN branches[i].results = DictFields
            /\ IsImageAsset(branches[i].results["final_ads"][branches[i].state.current_icp_id])

\* what the code does: final_ads[icp_id] is the coroutine compose() returned,
\* never awaited, and the update carries a composition ErrorLog
C26_FinalAdAsCoded ==
    \A i \in BranchIds :
        (ReadyToCompose(branches[i]) /\ branches[i].returned) =>
            /\ DOMAIN branches[i].results = DictFields \cup {"errors"}
            /\ branches[i].results["final_ads"][branches[i].state.current_icp_id] = Coroutine
            /\ Len(branches[i].results["errors"]) = 1
            /\ branches[i].results["errors"][1].agent_name = "composition"

-----------------------------------------------------------------------------
(* C27: a brand mark under every strategy *)

\* C27: whatever the brand strategy, and with or without a product brand, once
\* the logo stage has completed with a store brand that has a name, at least one
\* brand mark (a logo image or a text logo) has been drawn.
C27_SomeBrandMark ==
    (input.present /\ Completed("logos") /\ Truthy(input.store_brand.brand_name)) =>
        BrandMarks # {}

\* what the code does: product_dominant without a product brand matches no
\* branch of _render_logos and leaves the canvas without any mark
C27_MarksAsCoded ==
    (input.present /\ Completed("logos") /\ Truthy(input.store_brand.brand_name)) =>
        (BrandMarks = {} <=>
            (input.brand_strategy = "product_dominant" /\ ~input.product_brand.present))

-----------------------------------------------------------------------------
(* C28: no dimension is scaled down to nothing *)

ScaledDownProduct == Applied("resize_product_image") /\ ret.val # call.image
ScaledDownLogo    == Applied("_resize_to_fit") /\ ret.val # call.image

\* C28: whenever resize_product_image or the logo's fit-resize scales an image
\* down, the size it resizes to has a width and a height of at least one pixel.
C28_ScaledDownNonEmpty ==
    (ScaledDownProduct \/ ScaledDownLogo) => (ret.val[1] >= 1 /\ ret.val[2] >= 1)

\* what the code does: each side is truncated on its own, so a side comes out
\* as 0 when its scaled length is below one pixel, and only the side that set
\* the scale is sure of a pixel as long as two pixels are left to it
C28_ScaledDownAsCoded ==
    /\ ScaledDownProduct =>
          LET m == Max2(call.image[1], call.image[2])
          IN  \A k \in 1..2 :
                 /\ ret.val[k] >= 0
                 /\ call.image[k] * call.target_max_size >= 2 * m => ret.val[k] >= 1
                 /\ call.image[k] * call.target_max_size < m => ret.val[k] = 0
    /\ ScaledDownLogo =>
          /\ ret.val[1] >= 0 /\ ret.val[2] >= 0
          /\ ret.val[1] <= call.image[1] /\ ret.val[2] <= call.image[2]
          /\ call.max_width # 0 => ret.val[1] <= call.max_width
          /\ call.max_height # 0 => ret.val[2] <= call.max_height

-----------------------------------------------------------------------------
(* checkpoints.py: thread ids, list_checkpoints, clear_checkpoint *)

\* the run ids tried: a plain one, one it is a prefix of, one that extends it
\* after an underscore, one that differs in case, and an unrelated one
RunIds == {<<"r","1">>, <<"r","1","0">>, <<"r","1","_","x">>, <<"R","1">>, <<"q","7">>}

\* the thread names a run is checkpointed under
ThreadNames == {<<"m","a","i","n">>, <<"r","e","t","r","y">>}

\* get_checkpoint_config(run_id, thread_id)["configurable"]["thread_id"]
get_checkpoint_config(run_id, thread_id) == run_id \o <<"_">> \o thread_id

\* SQLite's  s LIKE pattern : % is any run of characters, _ any one character,
\* letters compare without regard to case
RECURSIVE Like(_, _)
Like(s, pattern) ==
    IF pattern = << >> THEN s = << >>
    ELSE IF Head(pattern) = "%"
    THEN Like(s, Tail(pattern)) \/ (s # << >> /\ Like(Tail(s), pattern))
    ELSE IF s = << >> THEN FALSE
    ELSE IF Head(pattern) = "_" THEN Like(Tail(s), Tail(pattern))
    ELSE LowerChar(Head(s)) = LowerChar(Head(pattern)) /\ Like(Tail(s), Tail(pattern))

\* a row of the checkpoints table: its thread_id, and (not stored) the run whose
\* config produced that thread_id
Row(run_id, thread) == [thread_id |-> get_checkpoint_config(run_id, thread), owner |-> run_id]

\* the last index of "_" in s, 0 if there is none
LastUnderscore(s) ==
    IF \E i \in 1..Len(s) : s[i] = "_"
    THEN CHOOSE i \in 1..Len(s) : s[i] = "_" /\ \A j \in (i + 1)..Len(s) : s[j] # "_"
    ELSE 0

\* checkpoints.list_checkpoints: the run ids read off the distinct thread ids
list_checkpoints(rows) ==
    { SubSeq(r.thread_id, 1, LastUnderscore(r.thread_id) - 1) :
        r \in { x \in rows : LastUnderscore(x.thread_id) > 0 } }

\* the rows  DELETE FROM checkpoints WHERE thread_id LIKE '{run_id}_%'  removes
ClearedRows(rows, run_id) ==
    { r \in rows : Like(r.thread_id, run_id \o <<"_", "%">>) }

\* run_with_checkpoints: the graph is invoked under the run's thread id and the
\* saver writes its checkpoints there
RunWithCheckpoints ==
    \E run_id \in RunIds, thread \in ThreadNames :
        /\ checkpoints' = checkpoints \cup {Row(run_id, thread)}
        /\ ckpt' = [op |-> "run_with_checkpoints", run_id |-> run_id, ret |-> TRUE]

\* checkpoints.clear_checkpoint(run_id): returns deleted > 0
ClearCheckpoint ==
    \E run_id \in RunIds :
        /\ checkpoints' = checkpoints \ ClearedRows(checkpoints, run_id)
        /\ ckpt' = [op |-> "clear_checkpoint", run_id |-> run_id,
                    ret |-> ClearedRows(checkpoints, run_id) # {}]

\* checkpoints.list_checkpoints()
ListCheckpoints ==
    /\ ckpt' = [op |-> "list_checkpoints", run_id |-> << >>,
                ret |-> list_checkpoints(checkpoints)]
    /\ UNCHANGED checkpoints

InitCkpt ==
    /\ call = NoCall
    /\ ret = NotDone
    /\ ComposeIdle
    /\ ParIdle
    /\ GraphIdle
    /\ CkptIdle

NextCkpt ==
    /\ \/ RunWithCheckpoints
       \/ ClearCheckpoint
       \/ ListCheckpoints
    /\ UNCHANGED <<call, ret>>
    /\ UNCHANGED composeVars
    /\ UNCHANGED parVars
    /\ UNCHANGED graphVars

SpecCkpt == InitCkpt /\ [][NextCkpt]_vars

-----------------------------------------------------------------------------
(* C29: clear_checkpoint *)

\* the rows written for the run
RowsOf(rows, run_id) == { r \in rows : r.owner = run_id }

\* C29: clear_checkpoint(run_id) deletes the rows whose thread id was made for
\* that run by get_checkpoint_config and leaves every other row as it was,
\* whatever other runs are stored; list_checkpoints afterwards still lists every
\* other run that was stored.
C29_ClearsOnlyTheRun ==
    [][ckpt'.op = "clear_checkpoint" =>
          /\ checkpoints' = checkpoints \ RowsOf(checkpoints, ckpt'.run_id)
          /\ \A r \in checkpoints :
                r.owner # ckpt'.run_id => r.owner \in list_checkpoints(checkpoints')]_vars

\* what the code does: every row whose thread id matches the LIKE pattern
\* '{run_id}_%' goes, the run's own among them
C29_ClearsAsCoded ==
    [][ckpt'.op = "clear_checkpoint" =>
          /\ checkpoints' = checkpoints \ ClearedRows(checkpoints, ckpt'.run_id)
          /\ RowsOf(checkpoints, ckpt'.run_id) \subseteq ClearedRows(checkpoints, ckpt'.run_id)
          /\ ckpt'.ret = (checkpoints' # checkpoints)]_vars

-----------------------------------------------------------------------------
(* C30: wrap_text loses nothing *)

AllSpace(text) == \A i \in 1..Len(text) : IsSpace(text[i])

\* C30: the lines wrap_text returns, joined with single spaces, are exactly the
\* whitespace-separated words of the text joined with single spaces; a text of
\* whitespace only (or no text) gives no lines.
C30_NothingLost ==
    Applied("wrap_text") =>
        /\ str_join(ret.val) = str_join(str_split(call.text))
        /\ AllSpace(call.text) => ret.val = << >>

\* a text with a tab, a newline and doubled whitespace, wrapped into two lines
C30_Witness ==
    /\ Applied("wrap_text")
    /\ call.text = <<"\n", "m", " ", "\t", "i", "\n">>
    /\ ret.val = << <<"m">>, <<"i">> >>

=============================================================================
